---- MODULE Spec2Model ----
(***************************************************************************)
(* Rate limiting of the GPT wrapper backend:                               *)
(*   - RateLimitQuota / RateLimitResult (domain/models/rate_limit_quota.py) *)
(*   - InMemoryRateLimiter, the fixed-window adapter, and RedisRateLimiter, *)
(*     the sliding-window adapter (adapters/rate_limiting/rate_limiter.py)  *)
(*   - RateLimiterService (application/services/rate_limiter_service.py)    *)
(*                                                                         *)
(* Strings are sequences of one-character strings, so that the f-string    *)
(* keys, str.startswith and the KEYS pattern are computed character by     *)
(* character.  Time is time.time() in whole seconds.                       *)
(***************************************************************************)
EXTENDS Integers, Sequences, FiniteSets, TLC

VARIABLES
    adapter,        \* which RateLimiter the container built: "memory" | "redis"
    now,            \* the clock read by time.time()
    limits,         \* InMemoryRateLimiter._limits: limit_key -> [count, reset_at]
    redis,          \* the Redis keyspace: redis_key -> [members, expire_at]
    refLimits,      \* reference run of the same adapter calls without get_quota
    refRedis,       \* reference run of the same Redis calls without get_quota
    defaultLimits,  \* RateLimiterService._default_limits
    threads,        \* concurrent callers of InMemoryRateLimiter.check_limit
    overlapped,     \* history: some check_limit started while another was running
    granted,        \* history: limit_key -> [max_requests, allowed answers of the window]
    windows,        \* history: limit_key -> [start, calls, reset] of the fixed window
    nchecks,        \* history: number of check_limit calls made so far
    nupdates,       \* history: number of update_limit_config calls made so far
    last,           \* the last call: its arguments and what it returned or raised
    log             \* history: the calls made so far, in the runs that keep it

vars == <<adapter, now, limits, redis, refLimits, refRedis, defaultLimits,
          threads, overlapped, granted, windows, nchecks, nupdates, last, log>>

----------------------------------------------------------------------------
(* Bounds of the exploration *)

MaxTime == 2
MaxChecks == 4
NumThreads == 2
MaxUpdates == 1
MaxServiceChecks == 2
MaxServiceTime == 1

----------------------------------------------------------------------------
(* Strings *)

Max(a, b) == IF a >= b THEN a ELSE b

SeqMin(S) == CHOOSE x \in S : \A y \in S : x <= y

DigitChar(d) ==
    CASE d = 0 -> "0" [] d = 1 -> "1" [] d = 2 -> "2" [] d = 3 -> "3"
      [] d = 4 -> "4" [] d = 5 -> "5" [] d = 6 -> "6" [] d = 7 -> "7"
      [] d = 8 -> "8" [] d = 9 -> "9"

\* str(n) of a non-negative int, as the f-strings format it
RECURSIVE Str(_)
Str(n) ==
    IF n < 10 THEN <<DigitChar(n)>>
    ELSE Str(n \div 10) \o <<DigitChar(n % 10)>>

\* s.startswith(p)
StartsWith(s, p) == Len(s) >= Len(p) /\ SubSeq(s, 1, Len(p)) = p

\* d[k] = v on a dict
Put(d, k, v) == [x \in DOMAIN d \cup {k} |-> IF x = k THEN v ELSE d[x]]

\* del d[k] for every k in ks
Drop(d, ks) == [x \in DOMAIN d \ ks |-> d[x]]

EmptyDict == [x \in {} |-> 0]

----------------------------------------------------------------------------
(* Inputs *)

\* keys handed to the adapters (user ids, client ids, ...): a plain one, and
\* one that holds the separator ':' and a backslash
KeyU == <<"u">>
KeyNested == <<"u", ":", "\\">>

Keys == {KeyU, KeyNested}

\* the (max_requests, window_seconds) pairs handed to the adapters
Limits == {<<1, 1>>, <<2, 2>>}

----------------------------------------------------------------------------
(* RateLimitQuota and RateLimitResult *)

\* datetime.fromtimestamp(ts): exact on whole seconds
FromTimestamp(ts) == ts

RateLimitQuota(key, max_requests, used, window_seconds, reset_at) ==
    [key |-> key, max_requests |-> max_requests, used |-> used,
     window_seconds |-> window_seconds, reset_at |-> reset_at]

\* a remaining count that is not clamped at 0
RemainingUnclamped(quota) == quota.max_requests - quota.used

\* RateLimitQuota.remaining
Remaining(quota) == Max(0, quota.max_requests - quota.used)

IsExceeded(quota) == quota.used >= quota.max_requests

RateLimitResult(allowed, quota) == [allowed |-> allowed, quota |-> quota]

ResultRemaining(result) == Remaining(result.quota)

----------------------------------------------------------------------------
(* InMemoryRateLimiter *)

\* a limit key that leaves the limits out
LimitKeyWithoutLimits(key, max_requests, window_seconds) == key \o <<":">>

\* limit_key = f"{key}:{max_requests}:{window_seconds}"
LimitKey(key, max_requests, window_seconds) ==
    key \o <<":">> \o Str(max_requests) \o <<":">> \o Str(window_seconds)

NewRecord(t, window_seconds) == [count |-> 0, reset_at |-> t + window_seconds]

\* if limit_key not in self._limits: self._limits[limit_key] = {...}
LookupOrCreate(store, limit_key, t, window_seconds) ==
    IF limit_key \notin DOMAIN store
    THEN Put(store, limit_key, NewRecord(t, window_seconds))
    ELSE store

\* a rollover that waits until the clock has passed reset_at
WindowExpiredStrictly(t, record) == t > record.reset_at

\* now >= limit_record['reset_at']
WindowExpired(t, record) == t >= record.reset_at

\* the window rollover: count = 0, reset_at = now + window_seconds
RollOver(store, limit_key, t, window_seconds) ==
    IF WindowExpired(t, store[limit_key])
    THEN Put(store, limit_key, NewRecord(t, window_seconds))
    ELSE store

\* a ceiling that stops one request short of max_requests
LimitReachedEarly(count, max_requests) == count + 1 >= max_requests

\* a ceiling that lets one request too many through
LimitReachedLate(count, max_requests) == count > max_requests

\* limit_record['count'] >= max_requests
LimitReached(count, max_requests) == count >= max_requests

\* limit_record['count'] += 1
Increment(store, limit_key) ==
    Put(store, limit_key, [store[limit_key] EXCEPT !.count = @ + 1])

QuotaOfRecord(store, limit_key, key, max_requests, window_seconds) ==
    RateLimitQuota(key, max_requests, store[limit_key].count, window_seconds,
                   FromTimestamp(store[limit_key].reset_at))

\* a check_limit that counts the attempt before it decides, as the
\* sliding-window adapter does
InMemoryCheckLimitCountingDenied(store, key, max_requests, window_seconds, t) ==
    LET limit_key == LimitKey(key, max_requests, window_seconds)
        s1 == LookupOrCreate(store, limit_key, t, window_seconds)
        s2 == RollOver(s1, limit_key, t, window_seconds)
        s3 == Increment(s2, limit_key)
    IN  [store |-> s3,
         result |-> RateLimitResult(s3[limit_key].count <= max_requests,
             QuotaOfRecord(s3, limit_key, key, max_requests, window_seconds))]

\* InMemoryRateLimiter.check_limit: the store it leaves and the result it returns
InMemoryCheckLimit(store, key, max_requests, window_seconds, t) ==
    LET limit_key == LimitKey(key, max_requests, window_seconds)
        s1 == LookupOrCreate(store, limit_key, t, window_seconds)
        s2 == RollOver(s1, limit_key, t, window_seconds)
    IN  IF LimitReached(s2[limit_key].count, max_requests)
        THEN [store |-> s2,
              result |-> RateLimitResult(FALSE,
                  QuotaOfRecord(s2, limit_key, key, max_requests, window_seconds))]
        ELSE LET s3 == Increment(s2, limit_key)
             IN  [store |-> s3,
                  result |-> RateLimitResult(TRUE,
                      QuotaOfRecord(s3, limit_key, key, max_requests, window_seconds))]

\* a get_quota that performs the rollover of an expired window itself
InMemoryGetQuotaStoreRollingOver(store, key, max_requests, window_seconds, t) ==
    IF LimitKey(key, max_requests, window_seconds) \in DOMAIN store
    THEN RollOver(store, LimitKey(key, max_requests, window_seconds), t,
                  window_seconds)
    ELSE store

\* what InMemoryRateLimiter.get_quota leaves of the store: it assigns nothing
InMemoryGetQuotaStore(store, key, max_requests, window_seconds, t) == store

\* a get_quota that reports an unused window whatever is stored
InMemoryGetQuotaFresh(store, key, max_requests, window_seconds, t) ==
    RateLimitQuota(key, max_requests, 0, window_seconds,
                   FromTimestamp(t + window_seconds))

\* InMemoryRateLimiter.get_quota
InMemoryGetQuota(store, key, max_requests, window_seconds, t) ==
    LET limit_key == LimitKey(key, max_requests, window_seconds)
    IN  IF limit_key \notin DOMAIN store
        THEN RateLimitQuota(key, max_requests, 0, window_seconds,
                            FromTimestamp(t + window_seconds))
        ELSE IF WindowExpired(t, store[limit_key])
        THEN RateLimitQuota(key, max_requests, 0, window_seconds,
                            FromTimestamp(t + window_seconds))
        ELSE QuotaOfRecord(store, limit_key, key, max_requests, window_seconds)

\* keys_to_reset: the limit keys that start with f"{key}:"
InMemoryKeysToReset(store, key) ==
    {limit_key \in DOMAIN store : StartsWith(limit_key, key \o <<":">>)}

\* a reset that removes the matching records
InMemoryResetLimitRemoving(store, key) == Drop(store, InMemoryKeysToReset(store, key))

\* a reset that also ends the window of the matching records
InMemoryResetLimitEndingWindow(store, key) ==
    [limit_key \in DOMAIN store |->
        IF limit_key \in InMemoryKeysToReset(store, key)
        THEN [count |-> 0, reset_at |-> 0]
        ELSE store[limit_key]]

\* InMemoryRateLimiter.reset_limit
InMemoryResetLimit(store, key) ==
    [limit_key \in DOMAIN store |->
        IF limit_key \in InMemoryKeysToReset(store, key)
        THEN [store[limit_key] EXCEPT !.count = 0]
        ELSE store[limit_key]]

----------------------------------------------------------------------------
(* The Redis commands RedisRateLimiter issues.  A sorted set is the set of  *)
(* its scores: every member is added with its own value as score.  A key    *)
(* holds [members, expire_at], expire_at being {} (no expiry) or {time}.    *)

\* a ZADD that keeps a colliding call under a member of its own (a negative
\* number, out of reach of the eviction range)
ZAddDistinct(db, rkey, score) ==
    IF rkey \in DOMAIN db
    THEN Put(db, rkey, [db[rkey] EXCEPT !.members =
             @ \cup {IF score \in @ THEN 0 - (1 + Cardinality(@)) ELSE score}])
    ELSE Put(db, rkey, [members |-> {score}, expire_at |-> {}])

\* ZADD key score member, with member = score
ZAdd(db, rkey, score) ==
    IF rkey \in DOMAIN db
    THEN Put(db, rkey, [db[rkey] EXCEPT !.members = @ \cup {score}])
    ELSE Put(db, rkey, [members |-> {score}, expire_at |-> {}])

\* a ZREMRANGEBYSCORE whose upper end is exclusive
ZRemRangeByScoreBelow(db, rkey, lo, hi) ==
    IF rkey \notin DOMAIN db THEN db
    ELSE LET kept == {x \in db[rkey].members : ~(lo <= x /\ x < hi)}
         IN  IF kept = {} THEN Drop(db, {rkey})
             ELSE Put(db, rkey, [db[rkey] EXCEPT !.members = kept])

\* ZREMRANGEBYSCORE key lo hi: both ends inclusive; an emptied key is removed
ZRemRangeByScore(db, rkey, lo, hi) ==
    IF rkey \notin DOMAIN db THEN db
    ELSE LET kept == {x \in db[rkey].members : ~(lo <= x /\ x <= hi)}
         IN  IF kept = {} THEN Drop(db, {rkey})
             ELSE Put(db, rkey, [db[rkey] EXCEPT !.members = kept])

\* the scores held by a sorted set ({} when the key does not exist)
Members(db, rkey) == IF rkey \in DOMAIN db THEN db[rkey].members ELSE {}

\* ZCARD key
ZCard(db, rkey) ==
    IF rkey \in DOMAIN db THEN Cardinality(db[rkey].members) ELSE 0

\* an EXPIRE that sets no expiry
ExpireNever(db, rkey, seconds, t) == db

\* EXPIRE key seconds, issued at time t
Expire(db, rkey, seconds, t) ==
    IF rkey \notin DOMAIN db THEN db
    ELSE IF seconds <= 0 THEN Drop(db, {rkey})
    ELSE Put(db, rkey, [db[rkey] EXCEPT !.expire_at = {t + seconds}])

\* ZRANGE key 0 0 WITHSCORES: the scores of the oldest entry, if any
ZRangeOldest(db, rkey) ==
    IF rkey \in DOMAIN db THEN <<SeqMin(db[rkey].members)>> ELSE <<>>

\* the keyspace at time t: a key is gone once the clock has passed its expiry
ExpireKeys(db, t) ==
    Drop(db, {rkey \in DOMAIN db : \E e \in db[rkey].expire_at : t > e})

\* the glob match of KEYS: * any run, ? any character, \ the next one verbatim
RECURSIVE GlobMatch(_, _)
GlobMatch(pattern, string) ==
    IF pattern = <<>> THEN string = <<>>
    ELSE IF Head(pattern) = "*"
    THEN \E i \in 0 .. Len(string) :
            GlobMatch(Tail(pattern), SubSeq(string, i + 1, Len(string)))
    ELSE IF Head(pattern) = "?"
    THEN string # <<>> /\ GlobMatch(Tail(pattern), Tail(string))
    ELSE IF Head(pattern) = "\\" /\ Len(pattern) >= 2
    THEN /\ string # <<>>
         /\ Head(string) = pattern[2]
         /\ GlobMatch(SubSeq(pattern, 3, Len(pattern)), Tail(string))
    ELSE /\ string # <<>>
         /\ Head(string) = Head(pattern)
         /\ GlobMatch(Tail(pattern), Tail(string))

\* KEYS pattern
KeysMatching(db, pattern) == {rkey \in DOMAIN db : GlobMatch(pattern, rkey)}

----------------------------------------------------------------------------
(* RedisRateLimiter *)

RateLimitPrefix == <<"r", "a", "t", "e", "_", "l", "i", "m", "i", "t", ":">>

\* redis_key = f"rate_limit:{key}:{max_requests}:{window_seconds}"
RedisKey(key, max_requests, window_seconds) ==
    RateLimitPrefix \o LimitKey(key, max_requests, window_seconds)

\* a decision that already denies the call that reaches the limit
RedisLimitExceededAtLimit(used_count, max_requests) == used_count >= max_requests

\* a decision that lets one call more through
RedisLimitExceededLate(used_count, max_requests) == used_count > max_requests + 1

\* used_count > max_requests
RedisLimitExceeded(used_count, max_requests) == used_count > max_requests

\* reset_at from the oldest entry, or from now when there is none
RedisResetAt(db, rkey, window_seconds, t) ==
    LET oldest == ZRangeOldest(db, rkey)
    IN  IF oldest # <<>> THEN FromTimestamp(oldest[1] + window_seconds)
        ELSE FromTimestamp(t + window_seconds)

\* the pipeline of check_limit as the server executes it at time server_time
\* for a call that read its timestamp t earlier: zadd, zremrangebyscore,
\* zcard, expire
RedisPipeline(db, rkey, window_seconds, t, server_time) ==
    [store |-> Expire(ZRemRangeByScore(ZAdd(db, rkey, t), rkey, 0,
                                       t - window_seconds),
                      rkey, window_seconds, server_time),
     used_count |-> ZCard(ZRemRangeByScore(ZAdd(db, rkey, t), rkey, 0,
                                           t - window_seconds), rkey)]

\* a check_limit that keeps its timestamp in the set only when it allows the
\* call
RedisCheckLimitCountingAllowed(db, key, max_requests, window_seconds, t) ==
    LET rkey == RedisKey(key, max_requests, window_seconds)
        d2 == ZRemRangeByScore(ZAdd(db, rkey, t), rkey, 0, t - window_seconds)
        d3 == Expire(d2, rkey, window_seconds, t)
        quota == RateLimitQuota(key, max_requests, ZCard(d2, rkey), window_seconds,
                                RedisResetAt(d3, rkey, window_seconds, t))
    IN  IF RedisLimitExceeded(ZCard(d2, rkey), max_requests)
        THEN [store |-> db, result |-> RateLimitResult(FALSE, quota)]
        ELSE [store |-> d3, result |-> RateLimitResult(TRUE, quota)]

\* RedisRateLimiter.check_limit: the pipeline (zadd, zremrangebyscore, zcard,
\* expire), then zrange and the decision
RedisCheckLimit(db, key, max_requests, window_seconds, t) ==
    LET rkey == RedisKey(key, max_requests, window_seconds)
        d1 == ZAdd(db, rkey, t)
        d2 == ZRemRangeByScore(d1, rkey, 0, t - window_seconds)
        used_count == ZCard(d2, rkey)
        d3 == Expire(d2, rkey, window_seconds, t)
        quota == RateLimitQuota(key, max_requests, used_count, window_seconds,
                                RedisResetAt(d3, rkey, window_seconds, t))
    IN  [store |-> d3,
         result |-> RateLimitResult(~RedisLimitExceeded(used_count, max_requests),
                                    quota)]

\* a get_quota that records its own timestamp, as check_limit does
RedisGetQuotaStoreAdding(db, key, max_requests, window_seconds, t) ==
    ZRemRangeByScore(ZAdd(db, RedisKey(key, max_requests, window_seconds), t),
                     RedisKey(key, max_requests, window_seconds),
                     0, t - window_seconds)

\* a get_quota that sends no command that changes the set
RedisGetQuotaStoreUntouched(db, key, max_requests, window_seconds, t) == db

\* what RedisRateLimiter.get_quota leaves of the keyspace: zremrangebyscore
RedisGetQuotaStore(db, key, max_requests, window_seconds, t) ==
    ZRemRangeByScore(db, RedisKey(key, max_requests, window_seconds),
                     0, t - window_seconds)

\* RedisRateLimiter.get_quota
RedisGetQuota(db, key, max_requests, window_seconds, t) ==
    LET rkey == RedisKey(key, max_requests, window_seconds)
        d1 == RedisGetQuotaStore(db, key, max_requests, window_seconds, t)
    IN  RateLimitQuota(key, max_requests, ZCard(d1, rkey), window_seconds,
                       RedisResetAt(d1, rkey, window_seconds, t))

\* pattern = f"rate_limit:{key}:*"
RedisResetPattern(key) == RateLimitPrefix \o key \o <<":", "*">>

\* RedisRateLimiter.reset_limit
RedisResetLimit(db, key) == Drop(db, KeysMatching(db, RedisResetPattern(key)))

----------------------------------------------------------------------------
(* The adapter the container built *)

CheckLimitOn(kind, store, key, max_requests, window_seconds, t) ==
    IF kind = "memory"
    THEN InMemoryCheckLimit(store, key, max_requests, window_seconds, t)
    ELSE RedisCheckLimit(store, key, max_requests, window_seconds, t)

GetQuotaOn(kind, store, key, max_requests, window_seconds, t) ==
    IF kind = "memory"
    THEN InMemoryGetQuota(store, key, max_requests, window_seconds, t)
    ELSE RedisGetQuota(store, key, max_requests, window_seconds, t)

GetQuotaStoreOn(kind, store, key, max_requests, window_seconds, t) ==
    IF kind = "memory"
    THEN InMemoryGetQuotaStore(store, key, max_requests, window_seconds, t)
    ELSE RedisGetQuotaStore(store, key, max_requests, window_seconds, t)

ResetLimitOn(kind, store, key) ==
    IF kind = "memory" THEN InMemoryResetLimit(store, key)
    ELSE RedisResetLimit(store, key)

\* the store of the adapter in use, and of its reference run
Store == IF adapter = "memory" THEN limits ELSE redis
RefStore == IF adapter = "memory" THEN refLimits ELSE refRedis

----------------------------------------------------------------------------
(* RateLimiterService *)

ApiMaxRequests == 100
ApiWindowSeconds == 60
GptMaxRequests == 10
GptWindowSeconds == 60

ApiType == <<"a", "p", "i">>
GptType == <<"g", "p", "t">>

\* self._default_limits as __init__ leaves it
InitialDefaultLimits ==
    [resource_type \in {ApiType, GptType} |->
        IF resource_type = ApiType
        THEN [max_requests |-> ApiMaxRequests, window_seconds |-> ApiWindowSeconds]
        ELSE [max_requests |-> GptMaxRequests, window_seconds |-> GptWindowSeconds]]

\* resource_type not in self._default_limits
UnknownResourceType(config, resource_type) == resource_type \notin DOMAIN config

\* a namespace that leaves the key out
NamespaceOnly(resource_type, key) == resource_type \o <<":">>

\* f"{resource_type}:{key}"
NamespacedKey(resource_type, key) == resource_type \o <<":">> \o key

\* return self._rate_limiter.check_limit(...): r is what the adapter made of it
Delegated(r) == [store |-> r.store, error |-> "", result |-> <<r.result>>]

\* limits = self._default_limits[resource_type]
LimitsOf(config, resource_type) == config[resource_type]

\* a check_and_update that falls back to the 'api' limits for an unknown type
ServiceCheckAndUpdateDefaulting(kind, store, config, key, resource_type, t) ==
    Delegated(CheckLimitOn(kind, store, NamespacedKey(resource_type, key),
        LimitsOf(config, IF UnknownResourceType(config, resource_type)
                         THEN ApiType ELSE resource_type).max_requests,
        LimitsOf(config, IF UnknownResourceType(config, resource_type)
                         THEN ApiType ELSE resource_type).window_seconds, t))

\* RateLimiterService.check_and_update: ValueError, or the adapter's result
ServiceCheckAndUpdate(kind, store, config, key, resource_type, t) ==
    IF UnknownResourceType(config, resource_type)
    THEN [store |-> store, error |-> "ValueError", result |-> <<>>]
    ELSE Delegated(CheckLimitOn(kind, store, NamespacedKey(resource_type, key),
                                LimitsOf(config, resource_type).max_requests,
                                LimitsOf(config, resource_type).window_seconds, t))

\* RateLimiterService.get_quota: ValueError, or the adapter's quota
ServiceGetQuota(kind, store, config, key, resource_type, t) ==
    IF UnknownResourceType(config, resource_type)
    THEN [store |-> store, error |-> "ValueError", quota |-> <<>>]
    ELSE [store |-> GetQuotaStoreOn(kind, store, NamespacedKey(resource_type, key),
                                    config[resource_type].max_requests,
                                    config[resource_type].window_seconds, t),
          error |-> "",
          quota |-> <<GetQuotaOn(kind, store, NamespacedKey(resource_type, key),
                                 config[resource_type].max_requests,
                                 config[resource_type].window_seconds, t)>>]

\* the prefix RateLimiterService.reset_limit hands to the adapter; a
\* resource_type of None (or "") is <<>>
ServiceResetPrefix(key, resource_type) ==
    IF resource_type # <<>> THEN NamespacedKey(resource_type, key) ELSE key

\* RateLimiterService.reset_limit
ServiceResetLimit(kind, store, key, resource_type) ==
    ResetLimitOn(kind, store, ServiceResetPrefix(key, resource_type))

\* an update that only changes resource types that are registered already
UpdateLimitConfigRegisteredOnly(config, resource_type, max_requests, window_seconds) ==
    IF resource_type \in DOMAIN config
    THEN Put(config, resource_type,
             [max_requests |-> max_requests, window_seconds |-> window_seconds])
    ELSE config

\* RateLimiterService.update_limit_config
UpdateLimitConfig(config, resource_type, max_requests, window_seconds) ==
    Put(config, resource_type,
        [max_requests |-> max_requests, window_seconds |-> window_seconds])

\* the callables handed to with_rate_limiting, as the tests define them:
\* key_extractor(user_id) and test_func(user_id)
KeyFunc(args) == args[1]
Func(args) == <<"Success for ">> \o args[1]
NoneValue == <<>>

\* a wrapper that never sees a denial
DeniedNever(result) == FALSE

\* not result.allowed
Denied(result) == ~result.allowed

\* an error raised with a quota that forgets the usage
ExceededQuotaFresh(result) == [result.quota EXCEPT !.used = 0]

\* the quota RateLimitExceededError is raised with
ExceededQuota(result) == result.quota

\* the wrapper, once check_and_update has ended as c: what it returns or
\* raises, and how often it invokes func
WrapperAfterCheck(c, args, raise_on_limit) ==
    IF c.error # ""
    THEN [store |-> c.store, raised |-> c.error, quota |-> <<>>,
          returned |-> <<>>, invoked |-> 0, check |-> c.result]
    ELSE IF Denied(c.result[1])
    THEN IF raise_on_limit
         THEN [store |-> c.store, raised |-> "RateLimitExceededError",
               quota |-> <<ExceededQuota(c.result[1])>>,
               returned |-> <<>>, invoked |-> 0, check |-> c.result]
         ELSE [store |-> c.store, raised |-> "", quota |-> <<>>,
               returned |-> <<NoneValue>>, invoked |-> 0, check |-> c.result]
    ELSE [store |-> c.store, raised |-> "", quota |-> <<>>,
          returned |-> <<Func(args)>>, invoked |-> 1, check |-> c.result]

\* the wrapper with_rate_limiting returns: key = key_func(*args), then
\* check_and_update(key, resource_type), then the decision
Wrapper(kind, store, config, args, resource_type, raise_on_limit, t) ==
    WrapperAfterCheck(
        ServiceCheckAndUpdate(kind, store, config, KeyFunc(args), resource_type, t),
        args, raise_on_limit)

----------------------------------------------------------------------------
(* The state machine *)

Threads == 1 .. NumThreads

\* a thread that is in no check_limit call: units is what its last call added
\* to the count, answer what it returned ("" before the first call)
IdleThread == [pc |-> "idle", units |-> 0, answer |-> ""]

Init ==
    /\ adapter \in {"memory", "redis"}
    /\ now = 0
    /\ limits = EmptyDict
    /\ redis = EmptyDict
    /\ refLimits = EmptyDict
    /\ refRedis = EmptyDict
    /\ defaultLimits = InitialDefaultLimits
    /\ threads = [tid \in Threads |-> IdleThread]
    /\ overlapped = FALSE
    /\ granted = EmptyDict
    /\ windows = EmptyDict
    /\ nchecks = 0
    /\ nupdates = 0
    /\ last = [op |-> "init"]
    /\ log = <<>>

\* the adapter in use, and its reference run, take new stores
SetStores(store, refStore) ==
    /\ limits' = IF adapter = "memory" THEN store ELSE limits
    /\ refLimits' = IF adapter = "memory" THEN refStore ELSE refLimits
    /\ redis' = IF adapter = "redis" THEN store ELSE redis
    /\ refRedis' = IF adapter = "redis" THEN refStore ELSE refRedis

\* history: the fixed window a check_limit call at time t falls into.  A
\* window opens at the first call for the limit key and at the first call
\* made window_seconds or more after the current window opened.
WindowAfterCall(wins, limit_key, t, window_seconds) ==
    IF limit_key \notin DOMAIN wins \/ t >= wins[limit_key].start + window_seconds
    THEN Put(wins, limit_key, [start |-> t, calls |-> 1, reset |-> FALSE])
    ELSE Put(wins, limit_key, [wins[limit_key] EXCEPT !.calls = @ + 1])

\* history: reset_limit(key) was called within the window
WindowsAfterReset(wins, key) ==
    [limit_key \in DOMAIN wins |->
        IF StartsWith(limit_key, key \o <<":">>)
        THEN [wins[limit_key] EXCEPT !.reset = TRUE]
        ELSE wins[limit_key]]

\* the stored record of a limit key: <<record>>, or <<>> when there is none
RecordOf(store, limit_key) ==
    IF limit_key \in DOMAIN store THEN <<store[limit_key]>> ELSE <<>>

\* adapter.check_limit(key, max_requests, window_seconds), counted in nchecks
CheckLimitStep(key, max_requests, window_seconds) ==
    /\ LET r == CheckLimitOn(adapter, Store, key, max_requests, window_seconds, now)
           ref == CheckLimitOn(adapter, RefStore, key, max_requests,
                               window_seconds, now)
           limit_key == LimitKey(key, max_requests, window_seconds)
       IN  /\ SetStores(r.store, ref.store)
           /\ windows' = IF adapter = "memory"
                         THEN WindowAfterCall(windows, limit_key, now, window_seconds)
                         ELSE windows
           /\ last' = [op |-> "check_limit", key |-> key,
                       max_requests |-> max_requests,
                       window_seconds |-> window_seconds, at |-> now,
                       before |-> IF adapter = "memory"
                                  THEN RecordOf(limits, limit_key) ELSE <<>>,
                       afterQuota |-> last.op = "get_quota",
                       result |-> r.result, ref |-> ref.result]
    /\ nchecks' = nchecks + 1
    /\ UNCHANGED <<adapter, now, defaultLimits, threads, overlapped, granted,
                   nupdates>>

\* adapter.check_limit(key, max_requests, window_seconds)
CheckLimitCall(key, max_requests, window_seconds) ==
    /\ nchecks < MaxChecks
    /\ CheckLimitStep(key, max_requests, window_seconds)

CheckLimit(key, max_requests, window_seconds) ==
    CheckLimitCall(key, max_requests, window_seconds) /\ UNCHANGED log

\* adapter.get_quota(key, max_requests, window_seconds); the reference run
\* does not make the call
GetQuota(key, max_requests, window_seconds) ==
    /\ SetStores(GetQuotaStoreOn(adapter, Store, key, max_requests,
                                 window_seconds, now),
                 RefStore)
    /\ last' = [op |-> "get_quota", key |-> key, max_requests |-> max_requests,
                window_seconds |-> window_seconds, at |-> now,
                quota |-> GetQuotaOn(adapter, Store, key, max_requests,
                                     window_seconds, now),
                evicted |-> Members(redis, RedisKey(key, max_requests,
                                                    window_seconds))
                            \ Members(redis', RedisKey(key, max_requests,
                                                       window_seconds))]
    /\ UNCHANGED <<adapter, now, defaultLimits, threads, overlapped, granted,
                   windows, nchecks, nupdates, log>>

\* adapter.reset_limit(key)
ResetLimit(key) ==
    /\ SetStores(ResetLimitOn(adapter, Store, key),
                 ResetLimitOn(adapter, RefStore, key))
    /\ windows' = IF adapter = "memory" THEN WindowsAfterReset(windows, key)
                  ELSE windows
    /\ last' = [op |-> "reset_limit", key |-> key, at |-> now,
                consumed |-> {l \in Limits :
                    GetQuotaOn(adapter, Store, key, l[1], l[2], now).used > 0}]
    /\ UNCHANGED <<adapter, now, defaultLimits, threads, overlapped, granted,
                   nchecks, nupdates, log>>

\* the clock moves on by d seconds; Redis drops the keys that have expired
Tick(d) ==
    /\ now' = now + d
    /\ redis' = ExpireKeys(redis, now')
    /\ refRedis' = ExpireKeys(refRedis, now')
    /\ last' = [op |-> "tick"]
    /\ UNCHANGED <<adapter, limits, refLimits, defaultLimits, threads, overlapped,
                   granted, windows, nchecks, nupdates, log>>

\* the adapters called directly, one call at a time
Next ==
    \/ \E key \in Keys, l \in Limits : CheckLimit(key, l[1], l[2])
    \/ \E key \in Keys, l \in Limits : GetQuota(key, l[1], l[2])
    \/ \E key \in Keys : ResetLimit(key)
    \/ now < MaxTime /\ Tick(1)

Spec == Init /\ [][Next]_vars

----------------------------------------------------------------------------
(* RateLimiterService on top of the adapter (SpecService) *)

ImgType == <<"i", "m", "g">>

\* the resource types callers name; 'img' is not registered at first
ResourceTypes == {ApiType, GptType, ImgType}

\* None, for reset_limit's resource_type
NoType == <<>>

\* the argument tuples the wrapped function is called with
ArgTuples == {<<key>> : key \in Keys}

\* the resource type the wrapped function is limited under
WrappedType == GptType

\* the limits update_limit_config is called with, as the tests call it
ServiceLimits == {<<1, GptWindowSeconds>>}

\* the resource types update_limit_config is called for: one registered, one not
UpdatedTypes == {GptType, ImgType}

\* the resource types reset_limit is called with
ResetTypes == {GptType, NoType}

\* used and remaining, as a quota shows them
UsedAndRemaining(quota) == [used |-> quota.used, remaining |-> Remaining(quota)]

\* what get_quota(key, resource_type) shows of a store: used and remaining
QuotaSeen(store, key, resource_type) ==
    UsedAndRemaining(
        GetQuotaOn(adapter, store, NamespacedKey(resource_type, key),
                   defaultLimits[resource_type].max_requests,
                   defaultLimits[resource_type].window_seconds, now))

\* the registered (key, resource type) pairs other than the given one
OtherPairs(key, resource_type) ==
    {p \in Keys \X DOMAIN defaultLimits : p # <<key, resource_type>>}

\* the state after check_and_update(key, resource_type) ended as c, and as
\* ref in the reference run; wrapper is <<>> or what the wrapper made of it
AfterCheckAndUpdate(key, resource_type, c, ref, wrapper) ==
    /\ SetStores(c.store, ref.store)
    /\ IF c.error # ""
       THEN /\ last' = [op |-> "value_error",
                        service |-> [call |-> "check_and_update", key |-> key,
                                     resource_type |-> resource_type,
                                     registered |-> resource_type \in DOMAIN defaultLimits],
                        changed |-> c.store # Store,
                        wrapper |-> wrapper]
            /\ UNCHANGED <<windows, nchecks>>
       ELSE     /\ last' = [op |-> "check_limit", key |-> c.result[1].quota.key,
                            max_requests |-> c.result[1].quota.max_requests,
                            window_seconds |-> c.result[1].quota.window_seconds,
                            at |-> now,
                            result |-> c.result[1], ref |-> ref.result[1],
                            service |-> [call |-> "check_and_update", key |-> key,
                                         resource_type |-> resource_type,
                                         registered |-> resource_type \in DOMAIN defaultLimits],
                            changed |-> c.store # Store,
                            usedBefore |-> IF UnknownResourceType(defaultLimits, resource_type)
                                          THEN 0
                                          ELSE QuotaSeen(Store, key, resource_type).used,
                            othersChanged |->
                                \E p \in OtherPairs(key, resource_type) :
                                    QuotaSeen(Store, p[1], p[2])
                                        # QuotaSeen(c.store, p[1], p[2]),
                            wrapper |-> wrapper]
                /\ nchecks' = nchecks + 1
                /\ UNCHANGED windows
    /\ UNCHANGED <<adapter, now, defaultLimits, threads, overlapped, granted,
                   nupdates>>

\* service.check_and_update(key, resource_type)
CheckAndUpdate(key, resource_type) ==
    /\ nchecks < MaxServiceChecks
    /\ AfterCheckAndUpdate(key, resource_type,
           ServiceCheckAndUpdate(adapter, Store, defaultLimits, key,
                                 resource_type, now),
           ServiceCheckAndUpdate(adapter, RefStore, defaultLimits, key,
                                 resource_type, now),
           <<>>)
    /\ UNCHANGED log

\* the state after a wrapper call ended as w, and as ref in the reference run
AfterWrapper(args, resource_type, raise_on_limit, w, ref) ==
    AfterCheckAndUpdate(KeyFunc(args), resource_type,
        [store |-> w.store,
         error |-> IF w.raised = "ValueError" THEN w.raised ELSE "",
         result |-> w.check],
        [store |-> ref.store, result |-> ref.check],
        <<[args |-> args, raise_on_limit |-> raise_on_limit,
           raised |-> w.raised, quota |-> w.quota,
           returned |-> w.returned, invoked |-> w.invoked]>>)

\* a call of with_rate_limiting(func, key_func, resource_type, raise_on_limit)
WrappedCall(args, resource_type, raise_on_limit) ==
    /\ nchecks < MaxServiceChecks
    /\ AfterWrapper(args, resource_type, raise_on_limit,
           Wrapper(adapter, Store, defaultLimits, args, resource_type,
                   raise_on_limit, now),
           Wrapper(adapter, RefStore, defaultLimits, args, resource_type,
                   raise_on_limit, now))
    /\ UNCHANGED log

\* the state after get_quota(key, resource_type) ended as g
AfterGetQuota(key, resource_type, g) ==
    /\ SetStores(g.store, RefStore)
    /\ last' = IF g.error # ""
               THEN [op |-> "value_error",
                     service |-> [call |-> "get_quota", key |-> key,
                                  resource_type |-> resource_type,
                                  registered |-> resource_type \in DOMAIN defaultLimits],
                     changed |-> g.store # Store,
                     wrapper |-> <<>>]
               ELSE [op |-> "get_quota"]

\* service.get_quota(key, resource_type); the reference run does not make it
ServiceQuota(key, resource_type) ==
    /\ AfterGetQuota(key, resource_type,
           ServiceGetQuota(adapter, Store, defaultLimits, key, resource_type, now))
    /\ UNCHANGED <<adapter, now, defaultLimits, threads, overlapped, granted,
                   windows, nchecks, nupdates, log>>

\* service.reset_limit(key, resource_type), resource_type possibly None
ServiceReset(key, resource_type) ==
    /\ SetStores(ServiceResetLimit(adapter, Store, key, resource_type),
                 ServiceResetLimit(adapter, RefStore, key, resource_type))
    /\ last' = [op |-> "reset_limit",
                key |-> ServiceResetPrefix(key, resource_type), at |-> now,
                service |-> [call |-> "reset_limit", key |-> key,
                             resource_type |-> resource_type]]
    /\ UNCHANGED <<adapter, now, defaultLimits, threads, overlapped, granted,
                   windows, nchecks, nupdates, log>>

\* service.update_limit_config(resource_type, max_requests, window_seconds),
\* counted in nupdates
ServiceUpdateStep(resource_type, max_requests, window_seconds) ==
    /\ defaultLimits' = UpdateLimitConfig(defaultLimits, resource_type,
                                          max_requests, window_seconds)
    /\ nupdates' = nupdates + 1
    /\ last' = [op |-> "update_limit_config", resource_type |-> resource_type,
                max_requests |-> max_requests, window_seconds |-> window_seconds]
    /\ UNCHANGED <<adapter, now, limits, redis, refLimits, refRedis, threads,
                   overlapped, granted, windows, nchecks>>

\* service.update_limit_config(resource_type, max_requests, window_seconds)
ServiceUpdateCall(resource_type, max_requests, window_seconds) ==
    /\ nupdates < MaxUpdates
    /\ ServiceUpdateStep(resource_type, max_requests, window_seconds)

ServiceUpdate(resource_type, max_requests, window_seconds) ==
    ServiceUpdateCall(resource_type, max_requests, window_seconds) /\ UNCHANGED log

NextService ==
    \/ \E key \in Keys, rt \in ResourceTypes : CheckAndUpdate(key, rt)
    \/ \E args \in ArgTuples, raise \in BOOLEAN :
            WrappedCall(args, WrappedType, raise)
    \/ \E rt \in ResourceTypes : ServiceQuota(KeyU, rt)
    \/ \E rt \in ResetTypes : ServiceReset(KeyU, rt)
    \/ \E rt \in UpdatedTypes, l \in ServiceLimits : ServiceUpdate(rt, l[1], l[2])
    \/ now < MaxServiceTime /\ Tick(1)

SpecService == Init /\ [][NextService]_vars

----------------------------------------------------------------------------
(* update_limit_config between the checks of a service (SpecConfig); the log *)
(* keeps the updates and the checks that reached the adapter, in order.      *)

\* the values update_limit_config is called with: the tests' limit, and the
\* values 'gpt' is registered with
ConfigLimits == ServiceLimits \cup {<<GptMaxRequests, GptWindowSeconds>>}

UpdateEvent(resource_type, max_requests, window_seconds) ==
    [op |-> "update_limit_config", resource_type |-> resource_type,
     max_requests |-> max_requests, window_seconds |-> window_seconds]

CheckEvent(resource_type, key) ==
    [op |-> "check_and_update", resource_type |-> resource_type, key |-> key]

\* service.check_and_update(key, resource_type), logged when it reached the
\* adapter
ConfigCheck(key, resource_type) ==
    /\ nchecks < MaxServiceChecks
    /\ AfterCheckAndUpdate(key, resource_type,
           ServiceCheckAndUpdate(adapter, Store, defaultLimits, key,
                                 resource_type, now),
           ServiceCheckAndUpdate(adapter, RefStore, defaultLimits, key,
                                 resource_type, now),
           <<>>)
    /\ log' = IF UnknownResourceType(defaultLimits, resource_type) THEN log
              ELSE Append(log, CheckEvent(resource_type, key))

\* service.update_limit_config(resource_type, max_requests, window_seconds),
\* logged
ConfigUpdate(resource_type, max_requests, window_seconds) ==
    /\ ServiceUpdateCall(resource_type, max_requests, window_seconds)
    /\ log' = Append(log, UpdateEvent(resource_type, max_requests, window_seconds))

NextConfig ==
    \/ \E rt \in ResourceTypes : ConfigCheck(KeyU, rt)
    \/ \E rt \in UpdatedTypes, l \in ConfigLimits : ConfigUpdate(rt, l[1], l[2])
    \/ \E rt \in ResourceTypes : ServiceQuota(KeyU, rt)
    \/ now < MaxServiceTime /\ Tick(1)

SpecConfig == Init /\ [][NextConfig]_vars

----------------------------------------------------------------------------
(* Threads calling InMemoryRateLimiter.check_limit on one adapter (SpecConc). *)
(* A call takes four steps: look up or create the record, roll the window   *)
(* over, compare the count with max_requests, increment.  Each thread reads  *)
(* the clock once, at the start of its call.                                 *)

\* the key the threads contend for
ConcKey == KeyU

InitConc == Init /\ adapter = "memory"

\* history: the allowed answers of a limit key's current window start at 0
\* when the record is created and when its window rolls over
GrantedAtCreation(g, limit_key, max_requests) ==
    IF limit_key \in DOMAIN g THEN g
    ELSE Put(g, limit_key, [max_requests |-> max_requests, allowed |-> 0])

GrantedAfterRollOver(g, store, limit_key, t) ==
    IF WindowExpired(t, store[limit_key])
    THEN Put(g, limit_key, [g[limit_key] EXCEPT !.allowed = 0])
    ELSE g

ThreadLimitKey(tid) ==
    LimitKey(threads[tid].key, threads[tid].max_requests,
             threads[tid].window_seconds)

\* now = time.time(); limit_key = ...; if limit_key not in self._limits: ...
BeginCheck(tid, key, max_requests, window_seconds) ==
    /\ nchecks < MaxChecks
    /\ threads[tid].pc = "idle"
    /\ limits' = LookupOrCreate(limits,
                     LimitKey(key, max_requests, window_seconds), now,
                     window_seconds)
    /\ granted' = GrantedAtCreation(granted,
                     LimitKey(key, max_requests, window_seconds), max_requests)
    /\ threads' = [threads EXCEPT ![tid] =
                      [pc |-> "rollover", now |-> now, key |-> key,
                       max_requests |-> max_requests,
                       window_seconds |-> window_seconds,
                       units |-> 0, answer |-> ""]]
    /\ overlapped' = (overlapped
                        \/ \E other \in Threads \ {tid} : threads[other].pc # "idle")
    /\ nchecks' = nchecks + 1
    /\ UNCHANGED <<adapter, now, redis, refLimits, refRedis, defaultLimits,
                   windows, nupdates, last, log>>

\* if now >= limit_record['reset_at']: count = 0, reset_at = now + window
RollOverStep(tid) ==
    /\ threads[tid].pc = "rollover"
    /\ limits' = RollOver(limits, ThreadLimitKey(tid), threads[tid].now,
                          threads[tid].window_seconds)
    /\ granted' = GrantedAfterRollOver(granted, limits, ThreadLimitKey(tid),
                                       threads[tid].now)
    /\ threads' = [threads EXCEPT ![tid].pc = "compare"]
    /\ UNCHANGED <<adapter, now, redis, refLimits, refRedis, defaultLimits,
                   overlapped, windows, nchecks, nupdates, last, log>>

\* if limit_record['count'] >= max_requests: return allowed=False
CompareStep(tid) ==
    /\ threads[tid].pc = "compare"
    /\ threads' = IF LimitReached(limits[ThreadLimitKey(tid)].count,
                                  threads[tid].max_requests)
                  THEN [threads EXCEPT ![tid] =
                           [pc |-> "idle", units |-> @.units, answer |-> "denied"]]
                  ELSE [threads EXCEPT ![tid].pc = "increment"]
    /\ UNCHANGED <<adapter, now, limits, redis, refLimits, refRedis,
                   defaultLimits, overlapped, granted, windows, nchecks,
                   nupdates, last, log>>

\* limit_record['count'] += 1; return allowed=True
IncrementStep(tid) ==
    /\ threads[tid].pc = "increment"
    /\ limits' = Increment(limits, ThreadLimitKey(tid))
    /\ granted' = [granted EXCEPT ![ThreadLimitKey(tid)].allowed = @ + 1]
    /\ threads' = [threads EXCEPT ![tid] =
                      [pc |-> "idle",
                       units |-> @.units + limits'[ThreadLimitKey(tid)].count
                                         - limits[ThreadLimitKey(tid)].count,
                       answer |-> "allowed"]]
    /\ UNCHANGED <<adapter, now, redis, refLimits, refRedis, defaultLimits,
                   overlapped, windows, nchecks, nupdates, last, log>>

NextConc ==
    \/ \E tid \in Threads, l \in Limits : BeginCheck(tid, ConcKey, l[1], l[2])
    \/ \E tid \in Threads : RollOverStep(tid)
    \/ \E tid \in Threads : CompareStep(tid)
    \/ \E tid \in Threads : IncrementStep(tid)
    \/ now < MaxTime /\ Tick(1)

SpecConc == InitConc /\ [][NextConc]_vars

----------------------------------------------------------------------------
(* Properties of the adapters called directly (Spec) *)

LastLimitKey == LimitKey(last.key, last.max_requests, last.window_seconds)

\* the last call was a check_limit of the fixed-window adapter
FixedWindowCheck ==
    adapter = "memory" /\ last.op = "check_limit" /\ "service" \notin DOMAIN last

\* C1: fixed-window adapter: the k-th of up to max_requests consecutive
\* check_limit calls within one window, with no reset in between, is allowed
\* and reports used = k; the max_requests-th reports remaining = 0.
C1_WithinLimitAllowed ==
    FixedWindowCheck =>
        LET win == windows[LastLimitKey]
        IN  (~win.reset /\ win.calls <= last.max_requests) =>
                /\ last.result.allowed
                /\ last.result.quota.used = win.calls
                /\ (win.calls = last.max_requests
                        => ResultRemaining(last.result) = 0)

C1_Witness ==
    /\ FixedWindowCheck
    /\ last.max_requests = 2
    /\ windows[LastLimitKey].calls = 2
    /\ ~windows[LastLimitKey].reset
    /\ last.result.allowed
    /\ ResultRemaining(last.result) = 0

\* C2: fixed-window adapter: of the consecutive check_limit calls within one
\* window, with no reset in between, exactly those after the max_requests-th
\* are denied; a denied call leaves the stored record (count and reset_at) as
\* it was and reports used = max_requests and remaining = 0.
C2_DeniedBeyondLimit ==
    FixedWindowCheck =>
        LET win == windows[LastLimitKey]
        IN  ~win.reset =>
                /\ last.result.allowed <=> win.calls <= last.max_requests
                /\ win.calls > last.max_requests =>
                       /\ last.before = <<limits[LastLimitKey]>>
                       /\ last.result.quota.used = last.max_requests
                       /\ ResultRemaining(last.result) = 0

C2_Witness ==
    /\ FixedWindowCheck
    /\ last.max_requests = 2
    /\ windows[LastLimitKey].calls = 4
    /\ ~windows[LastLimitKey].reset
    /\ ~last.result.allowed

\* C3: fixed-window adapter: a check_limit call made at a time now >= the
\* stored record's reset_at is allowed, reports used = 1 and remaining =
\* max_requests - 1, and sets reset_at to now + window_seconds, whatever the
\* stored count was.
C3_RolloverAllows ==
    (FixedWindowCheck /\ last.before # <<>>
        /\ last.at >= last.before[1].reset_at) =>
            /\ last.result.allowed
            /\ last.result.quota.used = 1
            /\ ResultRemaining(last.result) = last.max_requests - 1
            /\ limits[LastLimitKey].reset_at = last.at + last.window_seconds
            /\ last.result.quota.reset_at
                   = FromTimestamp(last.at + last.window_seconds)

C3_Witness ==
    /\ FixedWindowCheck
    /\ last.before # <<>>
    /\ last.before[1].count = last.max_requests
    /\ last.at = last.before[1].reset_at
    /\ last.result.allowed

\* C6: either adapter: right after reset_limit(key), get_quota(key, m, w)
\* reports used = 0 and remaining = m for every (m, w).
C6_ResetClearsUsage ==
    last.op = "reset_limit" =>
        \A l \in Limits :
            LET quota == GetQuotaOn(adapter, Store, last.key, l[1], l[2], now)
            IN  quota.used = 0 /\ Remaining(quota) = l[1]

\* the glob characters of a KEYS pattern
GlobSpecial == {"*", "?", "[", "]", "\\"}

\* C6, as far as it holds: the same, for the fixed-window adapter, and for the
\* sliding-window adapter when the key holds no glob character.
ResetClearsUsageOfPlainKeys ==
    (last.op = "reset_limit"
        /\ (adapter = "redis" =>
                \A i \in 1 .. Len(last.key) : last.key[i] \notin GlobSpecial)) =>
        \A l \in Limits :
            LET quota == GetQuotaOn(adapter, Store, last.key, l[1], l[2], now)
            IN  quota.used = 0 /\ Remaining(quota) = l[1]

\* C7: either adapter: a check_limit call returns the same allowed flag and
\* the same used count as in the run of the same check_limit, reset_limit and
\* clock steps that makes no get_quota call.
C7_GetQuotaConsumesNothing ==
    last.op = "check_limit" =>
        /\ last.result.allowed = last.ref.allowed
        /\ last.result.quota.used = last.ref.quota.used

C7_Witness ==
    /\ last.op = "check_limit"
    /\ adapter = "redis"
    /\ last.afterQuota
    /\ last.result.quota.used = 2

----------------------------------------------------------------------------
(* Properties of concurrent check_limit calls (SpecConc) *)

\* no call has added more than one unit to a count
OneUnitPerCall == \A tid \in Threads : threads[tid].units <= 1

\* every stored count, and the number of allowed answers given in every
\* record's current window, is at most the record's max_requests
WithinCeiling ==
    \A limit_key \in DOMAIN granted :
        /\ limits[limit_key].count <= granted[limit_key].max_requests
        /\ granted[limit_key].allowed <= granted[limit_key].max_requests

\* C4 as stated: under every interleaving of the steps of concurrent
\* check_limit calls on one key, no call adds more than one unit, no stored
\* count exceeds max_requests and no window sees more than max_requests
\* allowed answers.
C4_AtomicUnderEveryInterleaving == OneUnitPerCall /\ WithinCeiling

\* C4 as amended: under every interleaving no call adds more than one unit;
\* as long as no check_limit call has started while another was in progress,
\* no stored count exceeds max_requests and no window sees more than
\* max_requests allowed answers.
C4_OneUnitAndSerialCeiling == OneUnitPerCall /\ (~overlapped => WithinCeiling)

C4_Witness ==
    /\ ~overlapped
    /\ \E limit_key \in DOMAIN granted :
          /\ granted[limit_key].max_requests = 2
          /\ granted[limit_key].allowed = 2
          /\ limits[limit_key].count = 2
    /\ \E tid \in Threads : threads[tid].answer = "denied"
    /\ \E tid \in Threads : threads[tid].answer = "allowed" /\ threads[tid].units = 1

----------------------------------------------------------------------------
(* Properties of RateLimiterService (SpecService) *)

\* the last call went through check_and_update and reached the adapter
ServiceCheck == last.op = "check_limit" /\ "service" \in DOMAIN last

\* the last call was made through the wrapper and reached the adapter
WrappedCheck == ServiceCheck /\ last.wrapper # <<>>

\* C5: a check call on one (resource type, key) pair leaves the used and
\* remaining values reported for every other registered pair, whether it
\* differs in the key or in the resource type, as they were.
C5_PairsShareNoUsage == ServiceCheck => ~last.othersChanged

C5_Witness ==
    /\ ServiceCheck
    /\ last.service.resource_type = GptType
    /\ ResultRemaining(last.result) = 0
    /\ QuotaSeen(Store, last.service.key, ApiType)
           = [used |-> 1, remaining |-> ApiMaxRequests - 1]
    /\ \E key \in Keys \ {last.service.key} :
           QuotaSeen(Store, key, GptType).used = 0

\* C8: with raise_on_limit = False the wrapper checks the limit under the
\* key key_func derives from the call's arguments; an allowed check invokes
\* the wrapped function once and returns its result; a denied check returns
\* None, raises nothing and does not invoke the wrapped function.
C8_WrapperReturnsNoneWhenDenied ==
    (WrappedCheck /\ ~last.wrapper[1].raise_on_limit) =>
        LET w == last.wrapper[1]
        IN  /\ last.key = NamespacedKey(WrappedType, KeyFunc(w.args))
            /\ w.raised = ""
            /\ last.result.allowed =>
                   w.invoked = 1 /\ w.returned = <<Func(w.args)>>
            /\ ~last.result.allowed =>
                   w.invoked = 0 /\ w.returned = <<NoneValue>>

C8_Witness ==
    /\ WrappedCheck
    /\ ~last.wrapper[1].raise_on_limit
    /\ ~last.result.allowed
    /\ last.wrapper[1].returned = <<NoneValue>>
    /\ last.wrapper[1].invoked = 0

\* C9: with raise_on_limit = True a denied check makes the wrapper raise
\* RateLimitExceededError without invoking the wrapped function; the error
\* carries the quota of the denying check: the checked key, used >=
\* max_requests, remaining = 0.
C9_WrapperRaisesWithDenyingQuota ==
    (WrappedCheck /\ last.wrapper[1].raise_on_limit /\ ~last.result.allowed) =>
        LET w == last.wrapper[1]
        IN  /\ w.raised = "RateLimitExceededError"
            /\ w.invoked = 0
            /\ w.returned = <<>>
            /\ w.quota = <<last.result.quota>>
            /\ w.quota[1].key = NamespacedKey(WrappedType, KeyFunc(w.args))
            /\ w.quota[1].used >= w.quota[1].max_requests
            /\ Remaining(w.quota[1]) = 0

C9_Witness ==
    /\ WrappedCheck
    /\ adapter = "redis"
    /\ last.wrapper[1].raise_on_limit
    /\ last.wrapper[1].raised = "RateLimitExceededError"
    /\ last.wrapper[1].quota[1].used > last.wrapper[1].quota[1].max_requests

\* the step was a check_and_update or get_quota call naming a resource type
\* that is not registered
UnregisteredCall ==
    /\ "service" \in DOMAIN last'
    /\ last'.service.call \in {"check_and_update", "get_quota"}
    /\ ~last'.service.registered

\* C10: a check_and_update or get_quota call naming an unregistered resource
\* type ends in ValueError and leaves the adapter's counters and the
\* configuration map as they were.
C10_UnregisteredTypeFails ==
    [][UnregisteredCall =>
          /\ last'.op = "value_error"
          /\ UNCHANGED <<limits, redis, defaultLimits>>]_vars

C10_Witness ==
    /\ last.op = "value_error"
    /\ last.service.call = "check_and_update"
    /\ ~last.service.registered
    /\ Store # EmptyDict

----------------------------------------------------------------------------
(* Properties of update_limit_config (SpecConfig) *)

\* the positions of the log at which resource_type was updated
UpdatesOf(resource_type) ==
    {i \in 1 .. Len(log) : /\ log[i].op = "update_limit_config"
                           /\ log[i].resource_type = resource_type}

\* the latest update of resource_type
LatestUpdate(resource_type) ==
    log[CHOOSE i \in UpdatesOf(resource_type) :
            \A j \in UpdatesOf(resource_type) : j <= i]

\* the last call is the first check of its (resource type, key) pair since
\* the latest update of the resource type
FirstCheckSinceUpdate ==
    /\ ServiceCheck
    /\ UpdatesOf(last.service.resource_type) # {}
    /\ \A i \in 1 .. Len(log) - 1 :
          (/\ \A j \in UpdatesOf(last.service.resource_type) : j < i
           /\ log[i].op = "check_and_update")
              => ~(/\ log[i].resource_type = last.service.resource_type
                   /\ log[i].key = last.service.key)

\* a resource type that was updated is registered with the values of its
\* latest update: get_quota returns them for every key, and so does the last
\* check if it was made for that type
UsesLatestValues ==
    \A rt \in ResourceTypes :
        UpdatesOf(rt) # {} =>
            /\ \A key \in Keys :
                  LET g == ServiceGetQuota(adapter, Store, defaultLimits, key,
                                           rt, now)
                  IN  /\ g.error = ""
                      /\ g.quota[1].max_requests = LatestUpdate(rt).max_requests
                      /\ g.quota[1].window_seconds = LatestUpdate(rt).window_seconds
            /\ (ServiceCheck /\ last.service.resource_type = rt) =>
                  /\ last.result.quota.max_requests = LatestUpdate(rt).max_requests
                  /\ last.result.quota.window_seconds
                         = LatestUpdate(rt).window_seconds

\* a resource type that was never updated is registered as at the start, or
\* not at all
OthersKeepConfig ==
    \A rt \in ResourceTypes :
        UpdatesOf(rt) = {} =>
            IF rt \in DOMAIN InitialDefaultLimits
            THEN rt \in DOMAIN defaultLimits
                    /\ defaultLimits[rt] = InitialDefaultLimits[rt]
            ELSE rt \notin DOMAIN defaultLimits

\* C11 as stated: after update_limit_config(resource_type, m, w) checks and
\* get_quota for the type return quotas with max_requests = m and
\* window_seconds = w, the first check of a key after the update reports
\* remaining = m - 1, and the other resource types keep their configuration.
C11_UpdateAppliesAndFirstCheckIsFresh ==
    /\ UsesLatestValues
    /\ OthersKeepConfig
    /\ FirstCheckSinceUpdate =>
           ResultRemaining(last.result) = last.result.quota.max_requests - 1

\* C11 as amended: the same, the first check reporting remaining = m - 1 when
\* the key has no usage recorded under (m, w) at the time of the check.
C11_UpdateAppliesToUnusedValues ==
    /\ UsesLatestValues
    /\ OthersKeepConfig
    /\ (FirstCheckSinceUpdate /\ last.usedBefore = 0) =>
           ResultRemaining(last.result) = last.result.quota.max_requests - 1

C11_Witness ==
    /\ FirstCheckSinceUpdate
    /\ last.service.resource_type = ImgType
    /\ last.usedBefore = 0
    /\ ResultRemaining(last.result) = GptMaxRequests - 1
    /\ defaultLimits[GptType] = InitialDefaultLimits[GptType]

----------------------------------------------------------------------------
(* Properties of RateLimiterService.reset_limit (SpecService) *)

\* the last call was service.reset_limit
ServiceResetCall == last.op = "reset_limit" /\ "service" \in DOMAIN last

\* C12: right after reset_limit(key) with resource_type omitted,
\* get_quota(key, r) reports used = 0 for every registered resource type r.
C12_ResetWithoutTypeClearsAllTypes ==
    (ServiceResetCall /\ last.service.resource_type = NoType) =>
        \A rt \in DOMAIN defaultLimits :
            QuotaSeen(Store, last.service.key, rt).used = 0

\* C13: reset_limit(key, resource_type) leaves get_quota(key, resource_type)
\* at used = 0 and leaves the usage reported for every other (key, resource
\* type) pair as it was before the reset.
C13_ResetTouchesOnlyItsNamespacedKey ==
    [][(ServiceResetCall' /\ last'.service.resource_type # NoType) =>
          /\ QuotaSeen(Store', last'.service.key,
                       last'.service.resource_type).used = 0
          /\ \A p \in OtherPairs(last'.service.key, last'.service.resource_type) :
                QuotaSeen(Store', p[1], p[2]) = QuotaSeen(Store, p[1], p[2])]_vars

----------------------------------------------------------------------------
(* The adapters called directly, one call at a time, with windows that span *)
(* several clock readings; log keeps one event per check_limit call         *)

MaxLoggedTime == 3

\* limits whose window holds more distinct clock readings than max_requests
WideLimits == {<<1, 2>>, <<2, 3>>}

\* history: a check_limit call and its answer, with the sorted set (Redis)
\* and the stored record (in memory) before and after it
CheckLimitEvent(key, max_requests, window_seconds, t, result) ==
    [op |-> "check_limit", key |-> key, max_requests |-> max_requests,
     window_seconds |-> window_seconds, at |-> t,
     before |-> Members(redis, RedisKey(key, max_requests, window_seconds)),
     after |-> Members(redis', RedisKey(key, max_requests, window_seconds)),
     recordBefore |-> RecordOf(limits, LimitKey(key, max_requests, window_seconds)),
     recordAfter |-> RecordOf(limits', LimitKey(key, max_requests, window_seconds)),
     allowed |-> result.allowed, used |-> result.quota.used]

\* adapter.check_limit(key, max_requests, window_seconds)
LoggedCheck(key, max_requests, window_seconds) ==
    /\ CheckLimitCall(key, max_requests, window_seconds)
    /\ log' = Append(log, CheckLimitEvent(key, max_requests, window_seconds, now,
                                          last'.result))

NextLogged ==
    \/ \E l \in WideLimits : LoggedCheck(KeyU, l[1], l[2])
    \/ \E l \in WideLimits : GetQuota(KeyU, l[1], l[2])
    \/ ResetLimit(KeyU)
    \/ now < MaxLoggedTime /\ Tick(1)

SpecLogged == Init /\ [][NextLogged]_vars

----------------------------------------------------------------------------
(* Properties of RedisRateLimiter.check_limit (SpecLogged) *)

\* the logged check_limit calls made with the limits l, in call order
CallsWith(l) ==
    LET WithLimits(e) == e.max_requests = l[1] /\ e.window_seconds = l[2]
    IN  SelectSeq(log, WithLimits)

\* the in-window entries after inserting the call's timestamp and evicting
\* the entries that are window_seconds old or older
InWindowAfter(e) ==
    {x \in e.before \cup {e.at} : x > e.at - e.window_seconds}

\* nothing was removed from the sorted set between the calls i .. j
Unbroken(calls, i, j) ==
    \A k \in i .. j - 1 : calls[k + 1].before = calls[k].after

\* calls[i .. j] start from an empty set, carry increasing timestamps inside
\* one window, and nothing was removed from the set between them
RunInOneWindow(calls, i, j) ==
    /\ calls[i].before = {}
    /\ Unbroken(calls, i, j)
    /\ \A k \in i .. j - 1 : calls[k + 1].at > calls[k].at
    /\ calls[j].at - calls[i].at < calls[i].window_seconds

\* C14: sliding-window adapter: a check_limit call whose timestamp is not yet
\* in the set is allowed exactly when the count of in-window entries after
\* insertion and eviction is <= max_requests; and of max_requests + 1 calls in
\* one window that start from an empty set, the first max_requests are allowed
\* and the last is denied.
C14_AllowedIffCountWithinLimit ==
    adapter = "redis" =>
        /\ \A i \in 1 .. Len(log) :
              log[i].at \notin log[i].before =>
                  /\ log[i].used = Cardinality(InWindowAfter(log[i]))
                  /\ log[i].allowed <=> log[i].used <= log[i].max_requests
        /\ \A l \in WideLimits :
              \A i \in 1 .. Len(CallsWith(l)) - l[1] :
                  RunInOneWindow(CallsWith(l), i, i + l[1]) =>
                      /\ \A k \in i .. i + l[1] - 1 : CallsWith(l)[k].allowed
                      /\ ~CallsWith(l)[i + l[1]].allowed

\* three calls for max_requests = 2 in one window: allowed, allowed, denied
C14_Witness ==
    /\ adapter = "redis"
    /\ Len(CallsWith(<<2, 3>>)) >= 3
    /\ RunInOneWindow(CallsWith(<<2, 3>>), 1, 3)
    /\ CallsWith(<<2, 3>>)[2].allowed
    /\ ~CallsWith(<<2, 3>>)[3].allowed
    /\ CallsWith(<<2, 3>>)[3].used = 3

----------------------------------------------------------------------------
(* Concurrent RedisRateLimiter.check_limit calls on one key: a call reads   *)
(* the clock, the server executes its pipeline as one step, then the client *)
(* reads the oldest entry and decides                                       *)

MaxRedisCalls == 2

InitRedisConc == Init /\ adapter = "redis"

ThreadRedisKey(tid) ==
    RedisKey(threads[tid].key, threads[tid].max_requests,
             threads[tid].window_seconds)

\* now = time.time(); redis_key = ...; the pipeline is queued; counted in
\* nchecks
BeginCheckStep(tid, key, max_requests, window_seconds) ==
    /\ threads[tid].pc = "idle"
    /\ threads' = [threads EXCEPT ![tid] =
                      [pc |-> "execute", now |-> now, key |-> key,
                       max_requests |-> max_requests,
                       window_seconds |-> window_seconds,
                       units |-> 0, answer |-> ""]]
    /\ overlapped' = (overlapped
                        \/ \E other \in Threads \ {tid} : threads[other].pc # "idle")
    /\ nchecks' = nchecks + 1
    /\ UNCHANGED <<adapter, now, limits, redis, refLimits, refRedis,
                   defaultLimits, granted, windows, nupdates, last, log>>

\* a thread enters check_limit
BeginRedisCheck(tid, key, max_requests, window_seconds) ==
    /\ nchecks < MaxRedisCalls
    /\ BeginCheckStep(tid, key, max_requests, window_seconds)

\* _, _, used_count, _ = pipe.execute()
ExecuteStep(tid) ==
    /\ threads[tid].pc = "execute"
    /\ redis' = RedisPipeline(redis, ThreadRedisKey(tid),
                              threads[tid].window_seconds, threads[tid].now,
                              now).store
    /\ threads' = [threads EXCEPT ![tid] =
                      [pc |-> "decide", now |-> @.now, key |-> @.key,
                       max_requests |-> @.max_requests,
                       window_seconds |-> @.window_seconds,
                       units |-> 0, answer |-> "",
                       used_count |-> RedisPipeline(redis, ThreadRedisKey(tid),
                                          @.window_seconds, @.now, now).used_count,
                       before |-> Members(redis, ThreadRedisKey(tid)),
                       after |-> Members(redis', ThreadRedisKey(tid))]]
    /\ UNCHANGED <<adapter, now, limits, refLimits, refRedis, defaultLimits,
                   overlapped, granted, windows, nchecks, nupdates, last, log>>

\* history: a finished call, the sorted set before and after its pipeline
FinishedCall(th, result) ==
    [op |-> "check_limit", key |-> th.key, max_requests |-> th.max_requests,
     window_seconds |-> th.window_seconds, at |-> th.now,
     before |-> th.before, after |-> th.after,
     allowed |-> result.allowed, used |-> result.quota.used]

\* oldest = self.redis.zrange(...); quota = ...; the decision on used_count
DecideStep(tid) ==
    /\ threads[tid].pc = "decide"
    /\ log' = Append(log, FinishedCall(threads[tid],
                  RateLimitResult(
                      ~RedisLimitExceeded(threads[tid].used_count,
                                          threads[tid].max_requests),
                      RateLimitQuota(threads[tid].key, threads[tid].max_requests,
                                     threads[tid].used_count,
                                     threads[tid].window_seconds,
                                     RedisResetAt(redis, ThreadRedisKey(tid),
                                                  threads[tid].window_seconds,
                                                  threads[tid].now)))))
    /\ threads' = [threads EXCEPT ![tid] =
                      [pc |-> "idle", units |-> 0,
                       answer |-> IF log'[Len(log')].allowed THEN "allowed"
                                  ELSE "denied"]]
    /\ UNCHANGED <<adapter, now, limits, redis, refLimits, refRedis,
                   defaultLimits, overlapped, granted, windows, nchecks,
                   nupdates, last>>

NextRedisConc ==
    \/ \E tid \in Threads, l \in WideLimits :
            BeginRedisCheck(tid, ConcKey, l[1], l[2])
    \/ \E tid \in Threads : ExecuteStep(tid)
    \/ \E tid \in Threads : DecideStep(tid)
    \/ now < MaxTime /\ Tick(1)

SpecRedisConc == InitRedisConc /\ [][NextRedisConc]_vars

----------------------------------------------------------------------------
(* Properties of concurrent RedisRateLimiter.check_limit calls (SpecRedisConc) *)

\* the call was let through although the entries already in the set and inside
\* its window had reached max_requests
OverAdmitted(e) ==
    /\ e.allowed
    /\ Cardinality({x \in e.before : x > e.at - e.window_seconds})
          >= e.max_requests

\* C16: with the pipeline executed as one step and the decision taken by the
\* client afterwards, two concurrent check_limit calls on one key can both be
\* let through although the limit had room for one only (C16_Witness); every
\* call observes the count of the set its own pipeline left, and a call is let
\* through on a full window only when its timestamp was a member of the set
\* already, that is, when it shares its clock reading with an earlier call.
C16_OverAdmissionBySharedTimestamp ==
    \A i \in 1 .. Len(log) :
        /\ log[i].used = Cardinality(log[i].after)
        /\ log[i].allowed <=> log[i].used <= log[i].max_requests
        /\ OverAdmitted(log[i]) => log[i].at \in log[i].before

\* two calls in progress at once, max_requests = 1, empty set: both observe
\* used = 1 and both are allowed
C16_Witness ==
    /\ overlapped
    /\ nchecks = 2
    /\ Len(log) = 2
    /\ \A i \in 1 .. 2 :
          /\ log[i].max_requests = 1
          /\ log[i].allowed
          /\ log[i].used <= log[i].max_requests
    /\ \E i \in 1 .. 2 : log[i].before = {}
    /\ \E i \in 1 .. 2 : OverAdmitted(log[i])

----------------------------------------------------------------------------
(* The backing store fails: a Redis command raises.  Neither adapter, nor   *)
(* service, nor wrapper has an exception handler                            *)

StoreError == "ConnectionError"

\* where a call can fail: pipe.execute() before the server ran the pipeline,
\* pipe.execute() after it ran (the reply is lost), or the zrange that follows
CheckFailPoints == {"execute", "executed", "zrange"}

\* where reset_limit can fail: keys(), delete() before or after it ran
ResetFailPoints == {"keys", "delete", "deleted"}

\* RedisRateLimiter.check_limit when the store raises at the given point
RedisCheckLimitRaising(db, key, max_requests, window_seconds, t, point) ==
    [store |-> IF point = "execute" THEN db
               ELSE RedisCheckLimit(db, key, max_requests, window_seconds, t).store,
     error |-> StoreError]

\* RedisRateLimiter.get_quota when the store raises at the given point
RedisGetQuotaRaising(db, key, max_requests, window_seconds, t, point) ==
    [store |-> IF point = "execute" THEN db
               ELSE RedisGetQuotaStore(db, key, max_requests, window_seconds, t),
     error |-> StoreError]

\* RedisRateLimiter.reset_limit when the store raises at the given point
RedisResetLimitRaising(db, key, point) ==
    [store |-> IF point = "deleted" THEN RedisResetLimit(db, key) ELSE db,
     error |-> StoreError]

\* a service that answers a failed adapter call with a permissive result
RaisedFailingOpen(r) ==
    [store |-> r.store, error |-> "",
     result |-> <<RateLimitResult(TRUE, RateLimitQuota(<<>>, 1, 0, 1, 0))>>]

\* return self._rate_limiter.<call>(...) when the adapter call raises: the
\* exception leaves the service method as it is
Raised(r) == [store |-> r.store, error |-> r.error, result |-> <<>>]

\* RateLimiterService.check_and_update over a failing store
ServiceCheckAndUpdateRaising(db, config, key, resource_type, t, point) ==
    IF UnknownResourceType(config, resource_type)
    THEN [store |-> db, error |-> "ValueError", result |-> <<>>]
    ELSE Raised(RedisCheckLimitRaising(db, NamespacedKey(resource_type, key),
                    LimitsOf(config, resource_type).max_requests,
                    LimitsOf(config, resource_type).window_seconds, t, point))

\* RateLimiterService.get_quota over a failing store
ServiceGetQuotaRaising(db, config, key, resource_type, t, point) ==
    IF UnknownResourceType(config, resource_type)
    THEN [store |-> db, error |-> "ValueError", result |-> <<>>]
    ELSE Raised(RedisGetQuotaRaising(db, NamespacedKey(resource_type, key),
                    LimitsOf(config, resource_type).max_requests,
                    LimitsOf(config, resource_type).window_seconds, t, point))

\* RateLimiterService.reset_limit over a failing store
ServiceResetLimitRaising(db, key, resource_type, point) ==
    Raised(RedisResetLimitRaising(db, ServiceResetPrefix(key, resource_type), point))

\* the wrapper of with_rate_limiting over a failing store
WrapperRaising(db, config, args, resource_type, raise_on_limit, t, point) ==
    WrapperAfterCheck(
        ServiceCheckAndUpdateRaising(db, config, KeyFunc(args), resource_type, t,
                                     point),
        args, raise_on_limit)

InitFail == Init /\ adapter = "redis"

\* the state after a call failed: a is how the adapter call ended, s the
\* service call, wrapper is <<>> or how the wrapper call ended
AfterStoreFailure(call, point, a, s, wrapper) ==
    /\ redis' = a.store
    /\ last' = [op |-> "store_error", call |-> call, point |-> point,
                at |-> now, db |-> redis,
                outcome |-> [adapter |-> a, service |-> s, wrapper |-> wrapper]]
    /\ UNCHANGED <<adapter, now, limits, refLimits, refRedis, defaultLimits,
                   threads, overlapped, granted, windows, nchecks, nupdates, log>>

\* a wrapped call during which the store raises
FailingWrappedCall(args, resource_type, raise_on_limit, point) ==
    /\ adapter = "redis"
    /\ AfterStoreFailure("check_limit", point,
        RedisCheckLimitRaising(redis, NamespacedKey(resource_type, KeyFunc(args)),
            LimitsOf(defaultLimits, resource_type).max_requests,
            LimitsOf(defaultLimits, resource_type).window_seconds, now, point),
        ServiceCheckAndUpdateRaising(redis, defaultLimits, KeyFunc(args),
                                     resource_type, now, point),
        <<WrapperRaising(redis, defaultLimits, args, resource_type,
                         raise_on_limit, now, point)>>)

\* service.get_quota(key, resource_type) during which the store raises
FailingQuota(key, resource_type, point) ==
    /\ adapter = "redis"
    /\ AfterStoreFailure("get_quota", point,
        RedisGetQuotaRaising(redis, NamespacedKey(resource_type, key),
            LimitsOf(defaultLimits, resource_type).max_requests,
            LimitsOf(defaultLimits, resource_type).window_seconds, now, point),
        ServiceGetQuotaRaising(redis, defaultLimits, key, resource_type, now,
                               point),
        <<>>)

\* service.reset_limit(key, resource_type) during which the store raises
FailingReset(key, resource_type, point) ==
    /\ adapter = "redis"
    /\ AfterStoreFailure("reset_limit", point,
        RedisResetLimitRaising(redis, ServiceResetPrefix(key, resource_type),
                               point),
        ServiceResetLimitRaising(redis, key, resource_type, point),
        <<>>)

NextFail ==
    \/ \E key \in Keys : CheckAndUpdate(key, GptType)
    \/ \E args \in ArgTuples, raise \in BOOLEAN, point \in CheckFailPoints :
            FailingWrappedCall(args, GptType, raise, point)
    \/ \E point \in CheckFailPoints : FailingQuota(KeyU, GptType, point)
    \/ \E point \in ResetFailPoints : FailingReset(KeyU, GptType, point)
    \/ now < MaxServiceTime /\ Tick(1)

SpecFail == InitFail /\ [][NextFail]_vars

----------------------------------------------------------------------------
(* Properties of calls over a failing store (SpecFail) *)

\* C17: when the store raises during check_limit, get_quota or reset_limit,
\* the same error leaves the adapter, the service and the wrapper; no result
\* is returned at any layer, the wrapped function is not invoked, and nothing
\* is sent to the store after a command that failed before it ran.
C17_StoreFailuresFailClosed ==
    last.op = "store_error" =>
        /\ last.outcome.adapter.error = StoreError
        /\ last.outcome.service.error = last.outcome.adapter.error
        /\ last.outcome.service.result = <<>>
        /\ \A i \in 1 .. Len(last.outcome.wrapper) :
              /\ last.outcome.wrapper[i].raised = last.outcome.adapter.error
              /\ last.outcome.wrapper[i].returned = <<>>
              /\ last.outcome.wrapper[i].check = <<>>
              /\ last.outcome.wrapper[i].invoked = 0
        /\ last.point \in {"execute", "keys", "delete"} => redis = last.db

\* a wrapped call for a key with room left fails in pipe.execute(): the
\* wrapper raises the store's error and func is not invoked
C17_Witness ==
    /\ last.op = "store_error"
    /\ last.call = "check_limit"
    /\ last.point = "execute"
    /\ Len(last.outcome.wrapper) = 1
    /\ last.outcome.wrapper[1].raised = StoreError
    /\ last.outcome.wrapper[1].invoked = 0
    /\ redis # EmptyDict
    /\ redis = last.db

----------------------------------------------------------------------------
(* The sliding-window adapter called directly, one call at a time *)

SpecSlidingWindow == InitRedisConc /\ [][Next]_vars

----------------------------------------------------------------------------
(* Properties of get_quota (SpecFixedWindow, SpecSlidingWindow, Spec) *)

\* the step is a get_quota call made on the adapter directly
AdapterGetQuota == last'.op = "get_quota" /\ "quota" \in DOMAIN last'

\* C18: fixed-window adapter: a get_quota call leaves the store as it was;
\* for a key never checked it creates no record and returns used = 0; when
\* the stored window has expired it returns used = 0 and reset_at = now +
\* window_seconds while the record keeps its count and reset_at.
C18_InMemoryGetQuotaLeavesStore ==
    [][(adapter = "memory" /\ AdapterGetQuota) =>
          LET limit_key == LimitKey(last'.key, last'.max_requests,
                                    last'.window_seconds)
          IN  /\ limits' = limits
              /\ limit_key \notin DOMAIN limits =>
                    /\ limit_key \notin DOMAIN limits'
                    /\ last'.quota.used = 0
              /\ (limit_key \in DOMAIN limits /\ now >= limits[limit_key].reset_at) =>
                    /\ last'.quota.used = 0
                    /\ last'.quota.reset_at =
                          FromTimestamp(now + last'.window_seconds)
                    /\ limits'[limit_key] = limits[limit_key]]_vars

\* get_quota on an expired window with usage: fresh quota, record kept
C18_Witness ==
    /\ adapter = "memory"
    /\ last.op = "get_quota"
    /\ "quota" \in DOMAIN last
    /\ LastLimitKey \in DOMAIN limits
    /\ limits[LastLimitKey].count > 0
    /\ now >= limits[LastLimitKey].reset_at
    /\ last.quota.used = 0
    /\ last.quota.reset_at = FromTimestamp(now + last.window_seconds)

\* the sorted set the get_quota call of the step reads
QuotaRedisKey == RedisKey(last'.key, last'.max_requests, last'.window_seconds)

\* C19 as stated: sliding-window adapter: after a get_quota call the key's
\* sorted set holds exactly the members it held before the call.
C19_RedisGetQuotaKeepsMembers ==
    [][(adapter = "redis" /\ AdapterGetQuota) =>
          Members(redis', QuotaRedisKey) = Members(redis, QuotaRedisKey)]_vars

\* C19 as amended: sliding-window adapter: a get_quota call inserts nothing;
\* the key's sorted set after the call is the set before it without the
\* entries whose score is <= now - window_seconds, every other sorted set is
\* as it was, and used is the number of entries left.
C19_RedisGetQuotaOnlyEvicts ==
    [][(adapter = "redis" /\ AdapterGetQuota) =>
          /\ Members(redis', QuotaRedisKey) =
                {x \in Members(redis, QuotaRedisKey) :
                    x > now - last'.window_seconds}
          /\ \A rkey \in (DOMAIN redis \cup DOMAIN redis') \ {QuotaRedisKey} :
                Members(redis', rkey) = Members(redis, rkey)
          /\ last'.quota.used = Cardinality(Members(redis', QuotaRedisKey))]_vars

\* a get_quota call that evicted an aged entry and left a younger one
C19_Witness ==
    /\ adapter = "redis"
    /\ last.op = "get_quota"
    /\ "quota" \in DOMAIN last
    /\ last.evicted # {}
    /\ last.quota.used = 1
    /\ Members(redis, RedisKey(last.key, last.max_requests,
                               last.window_seconds)) # {}

\* the window of the last call's limit key is open, and no reset fell into it
InOpenWindow ==
    /\ LastLimitKey \in DOMAIN windows
    /\ ~windows[LastLimitKey].reset
    /\ now < windows[LastLimitKey].start + last.window_seconds

\* the check_limit calls that were allowed in the window of the last call's
\* limit key: the first max_requests ones
AllowedInWindow ==
    IF windows[LastLimitKey].calls <= last.max_requests
    THEN windows[LastLimitKey].calls ELSE last.max_requests

\* C20: fixed-window adapter: after n allowed check_limit calls for a key
\* within one window and no reset, get_quota with the same max_requests and
\* window_seconds reports used = n, remaining = max_requests - n and the
\* reset_at the check results of that window reported, window start +
\* window_seconds; for a key never checked it reports used = 0.
C20_GetQuotaReportsAllowedCalls ==
    /\ (FixedWindowCheck /\ InOpenWindow) =>
          last.result.quota.reset_at =
              FromTimestamp(windows[LastLimitKey].start + last.window_seconds)
    /\ (adapter = "memory" /\ last.op = "get_quota" /\ "quota" \in DOMAIN last) =>
          /\ InOpenWindow =>
                /\ last.quota.used = AllowedInWindow
                /\ Remaining(last.quota) = last.max_requests - AllowedInWindow
                /\ last.quota.reset_at =
                      FromTimestamp(windows[LastLimitKey].start
                                    + last.window_seconds)
          /\ LastLimitKey \notin DOMAIN windows =>
                /\ last.quota.used = 0
                /\ Remaining(last.quota) = last.max_requests

\* get_quota after one allowed call of two: used = 1, remaining = 1
C20_Witness ==
    /\ adapter = "memory"
    /\ last.op = "get_quota"
    /\ "quota" \in DOMAIN last
    /\ InOpenWindow
    /\ last.max_requests = 2
    /\ windows[LastLimitKey].calls = 1
    /\ last.quota.used = 1
    /\ Remaining(last.quota) = 1
    /\ now > windows[LastLimitKey].start

----------------------------------------------------------------------------
(* Properties of the returned quotas (SpecNoReset) *)

\* the quota the last adapter call returned, if it returned one
QuotasReturned ==
    IF last.op = "check_limit" THEN {last.result.quota}
    ELSE IF last.op = "get_quota" /\ "quota" \in DOMAIN last THEN {last.quota}
    ELSE {}

\* C21: every quota an adapter call returns has used >= 0, a remaining count
\* that is max_requests - used when used <= max_requests and 0 when used is
\* larger (never negative), and is exceeded exactly when used >= max_requests,
\* that is, when nothing remains; a result's remaining is its quota's.
C21_QuotaDerivedValues ==
    /\ \A q \in QuotasReturned :
          /\ q.used >= 0
          /\ Remaining(q) >= 0
          /\ q.used <= q.max_requests => Remaining(q) = q.max_requests - q.used
          /\ q.used > q.max_requests => Remaining(q) = 0
          /\ IsExceeded(q) <=> q.used >= q.max_requests
          /\ IsExceeded(q) <=> Remaining(q) = 0
    /\ last.op = "check_limit" =>
          ResultRemaining(last.result) = Remaining(last.result.quota)

\* a sliding-window check that reports used > max_requests: remaining is 0
C21_Witness ==
    /\ adapter = "redis"
    /\ last.op = "check_limit"
    /\ last.result.quota.used > last.result.quota.max_requests
    /\ ResultRemaining(last.result) = 0
    /\ IsExceeded(last.result.quota)
    /\ ~last.result.allowed

----------------------------------------------------------------------------
(* The fixed-window adapter called directly, one call at a time *)

MaxFixedChecks == 3

MaxFixedTime == 2

\* adapter.check_limit(key, max_requests, window_seconds)
FixedCheck(key, max_requests, window_seconds) ==
    /\ nchecks < MaxFixedChecks
    /\ CheckLimitStep(key, max_requests, window_seconds)
    /\ UNCHANGED log

NextFixedWindow ==
    \/ \E key \in Keys, l \in Limits : FixedCheck(key, l[1], l[2])
    \/ \E key \in Keys, l \in Limits : GetQuota(key, l[1], l[2])
    \/ \E key \in Keys : ResetLimit(key)
    \/ now < MaxFixedTime /\ Tick(1)

SpecFixedWindow == InitConc /\ [][NextFixedWindow]_vars

----------------------------------------------------------------------------
(* The states of a fixed-window record (SpecFixedWindow) *)

\* the state of the record of a limit key with ceiling max_requests
RecordState(store, limit_key, max_requests) ==
    IF limit_key \notin DOMAIN store THEN "Uninitialized"
    ELSE IF store[limit_key].count < max_requests THEN "Active"
    ELSE IF store[limit_key].count = max_requests THEN "Exhausted"
    ELSE "Overdrawn"

\* the transitions of the state machine as stated, for a call op made when
\* the stored window was expired or not
StatedTransition(from, to, op, expired) ==
    \/ from = "Uninitialized" /\ to = "Active" /\ op = "check_limit"
    \/ from = "Active" /\ to = "Active"
    \/ from = "Active" /\ to = "Exhausted" /\ op = "check_limit"
    \/ /\ from = "Exhausted" /\ to = "Active"
       /\ (op = "check_limit" /\ expired) \/ op = "reset_limit"

\* the transitions a call takes in one go when max_requests = 1: the check
\* that creates the record, or that opens a new window, uses up the allowance
SingleRequestTransition(from, to, op, expired, max_requests) ==
    /\ max_requests = 1
    /\ op = "check_limit"
    /\ to = "Exhausted"
    /\ from = "Uninitialized" \/ (from = "Exhausted" /\ expired)

\* the stored window of limit_key has expired
StoredWindowExpired(limit_key) ==
    limit_key \in DOMAIN limits /\ now >= limits[limit_key].reset_at

\* every state can be left: a check leaves Uninitialized and changes an
\* Active record, a reset makes an Exhausted record Active
NoTerminalState(key, max_requests, window_seconds) ==
    LET limit_key == LimitKey(key, max_requests, window_seconds)
        from == RecordState(limits, limit_key, max_requests)
        checked == InMemoryCheckLimit(limits, key, max_requests,
                                      window_seconds, now).store
    IN  /\ from = "Uninitialized" =>
              RecordState(checked, limit_key, max_requests) # "Uninitialized"
        /\ from = "Active" => checked[limit_key] # limits[limit_key]
        /\ from = "Exhausted" =>
              RecordState(InMemoryResetLimit(limits, key), limit_key,
                          max_requests) = "Active"

\* no record of the fixed-window adapter is in a state it cannot leave
RecordsCanBeLeft ==
    adapter = "memory" =>
        \A key \in Keys, l \in Limits : NoTerminalState(key, l[1], l[2])

\* C22 as stated: fixed-window adapter, one call at a time: every record is
\* Uninitialized, Active or Exhausted; a call that changes a record moves it
\* Uninitialized -> Active (first check), Active -> Active, Active ->
\* Exhausted, or Exhausted -> Active (check at now >= reset_at, or reset);
\* no state is terminal and no record is ever removed.
C22_RecordStateMachine ==
    /\ []RecordsCanBeLeft
    /\ [][adapter = "memory" =>
          \A key \in Keys, l \in Limits :
              LET limit_key == LimitKey(key, l[1], l[2])
              IN  /\ RecordState(limits', limit_key, l[1])
                        \in {"Uninitialized", "Active", "Exhausted"}
                  /\ limit_key \in DOMAIN limits => limit_key \in DOMAIN limits'
                  /\ \/ RecordOf(limits', limit_key) = RecordOf(limits, limit_key)
                     \/ StatedTransition(RecordState(limits, limit_key, l[1]),
                                         RecordState(limits', limit_key, l[1]),
                                         last'.op, StoredWindowExpired(limit_key))]_vars

\* C22 as amended: the same, with the two transitions a single call makes
\* when max_requests = 1: Uninitialized -> Exhausted on the first check and
\* Exhausted -> Exhausted (new window, count 1) on a check at now >= reset_at.
C22_RecordStateMachineWithSingleRequest ==
    /\ []RecordsCanBeLeft
    /\ [][adapter = "memory" =>
          \A key \in Keys, l \in Limits :
              LET limit_key == LimitKey(key, l[1], l[2])
              IN  /\ RecordState(limits', limit_key, l[1])
                        \in {"Uninitialized", "Active", "Exhausted"}
                  /\ limit_key \in DOMAIN limits => limit_key \in DOMAIN limits'
                  /\ \/ RecordOf(limits', limit_key) = RecordOf(limits, limit_key)
                     \/ StatedTransition(RecordState(limits, limit_key, l[1]),
                                         RecordState(limits', limit_key, l[1]),
                                         last'.op, StoredWindowExpired(limit_key))
                     \/ SingleRequestTransition(
                            RecordState(limits, limit_key, l[1]),
                            RecordState(limits', limit_key, l[1]),
                            last'.op, StoredWindowExpired(limit_key), l[1])]_vars

\* an Exhausted record of max_requests = 2 was made Active by a check that
\* opened a new window
C22_Witness ==
    /\ FixedWindowCheck
    /\ last.max_requests = 2
    /\ last.before # <<>>
    /\ last.before[1].count = 2
    /\ last.at >= last.before[1].reset_at
    /\ RecordState(limits, LastLimitKey, 2) = "Active"

----------------------------------------------------------------------------
(* The adapters called directly, one call at a time, reset_limit never      *)
(* called; log keeps one event per check_limit call                         *)

NextNoReset ==
    \/ \E l \in WideLimits : LoggedCheck(KeyU, l[1], l[2])
    \/ \E l \in WideLimits : GetQuota(KeyU, l[1], l[2])
    \/ now < MaxLoggedTime /\ Tick(1)

SpecNoReset == Init /\ [][NextNoReset]_vars

----------------------------------------------------------------------------
(* Bounds on the allowed calls of an interval (SpecNoReset) *)

\* the calls carry pairwise distinct timestamps
DistinctTimestamps(calls) ==
    \A i, j \in 1 .. Len(calls) : i < j => calls[i].at < calls[j].at

\* the allowed calls made at a time in lo .. hi
AllowedBetween(calls, lo, hi) ==
    {i \in 1 .. Len(calls) :
        calls[i].allowed /\ lo <= calls[i].at /\ calls[i].at <= hi}

\* C23 as stated: sliding-window adapter, calls with distinct timestamps, no
\* reset: at most max_requests calls on a compound key are allowed in any
\* interval of length window_seconds, its two end points included.
C23_AtMostMaxPerClosedInterval ==
    adapter = "redis" =>
        \A l \in WideLimits :
            DistinctTimestamps(CallsWith(l)) =>
                \A t \in 0 .. MaxLoggedTime :
                    Cardinality(AllowedBetween(CallsWith(l), t - l[2], t)) <= l[1]

\* C23 as amended: the same for every interval (t - window_seconds, t], that
\* is, for calls less than window_seconds apart.
C23_AtMostMaxPerHalfOpenInterval ==
    adapter = "redis" =>
        \A l \in WideLimits :
            DistinctTimestamps(CallsWith(l)) =>
                \A t \in 0 .. MaxLoggedTime :
                    Cardinality(AllowedBetween(CallsWith(l), t - l[2] + 1, t))
                        <= l[1]

\* max_requests = 1: allowed, denied inside the window, allowed again after it
C23_Witness ==
    /\ adapter = "redis"
    /\ DistinctTimestamps(CallsWith(<<1, 2>>))
    /\ Len(CallsWith(<<1, 2>>)) = 3
    /\ CallsWith(<<1, 2>>)[1].allowed
    /\ ~CallsWith(<<1, 2>>)[2].allowed
    /\ CallsWith(<<1, 2>>)[3].allowed
    /\ CallsWith(<<1, 2>>)[3].at - CallsWith(<<1, 2>>)[1].at >= 2

----------------------------------------------------------------------------
(* The eviction boundary of the sliding window (SpecNoReset) *)

\* the step is a check_limit or a get_quota call
WindowedCall == last'.op \in {"check_limit", "get_quota"}

\* the sorted set the call of the step works on
CalledRedisKey == RedisKey(last'.key, last'.max_requests, last'.window_seconds)

\* the entries the call of the step removed from its sorted set
EvictedByCall == Members(redis, CalledRedisKey) \ Members(redis', CalledRedisKey)

\* the used count the call of the step returned
UsedByCall ==
    IF last'.op = "check_limit" THEN last'.result.quota.used ELSE last'.quota.used

\* C25 as stated: sliding-window adapter: check_limit and get_quota evict
\* exactly the entries whose score is below now - window_seconds; an entry at
\* now - window_seconds exactly stays and is counted in used.
C25_EvictsBelowWindowStart ==
    [][(adapter = "redis" /\ WindowedCall) =>
          /\ EvictedByCall = {x \in Members(redis, CalledRedisKey) :
                                 x < now - last'.window_seconds}
          /\ UsedByCall = Cardinality(Members(redis', CalledRedisKey))]_vars

\* C25 as amended: check_limit and get_quota evict exactly the entries whose
\* score is at or below now - window_seconds; an entry at now - window_seconds
\* exactly is evicted and is not counted in used.
C25_EvictsUpToWindowStart ==
    [][(adapter = "redis" /\ WindowedCall) =>
          /\ EvictedByCall = {x \in Members(redis, CalledRedisKey) :
                                 x <= now - last'.window_seconds}
          /\ UsedByCall = Cardinality(Members(redis', CalledRedisKey))
          /\ now - last'.window_seconds \notin Members(redis', CalledRedisKey)]_vars

\* a check_limit that found an entry exactly window_seconds old, evicted it
\* and did not count it
C25_Witness ==
    /\ adapter = "redis"
    /\ last.op = "check_limit"
    /\ log # <<>>
    /\ log[Len(log)].at = last.at
    /\ last.at - last.window_seconds \in log[Len(log)].before
    /\ last.at - last.window_seconds \notin log[Len(log)].after
    /\ last.result.quota.used = 1
    /\ last.result.allowed

\* the call is the first of a window: no record yet, or the stored one expired
OpensWindow(e) ==
    \/ e.recordBefore = <<>>
    \/ e.at >= e.recordBefore[1].reset_at

\* the allowed calls from the i-th on that are made before the time limit
AllowedFrom(calls, i, limit) ==
    {j \in i .. Len(calls) : calls[j].allowed /\ calls[j].at < limit}

\* C24: fixed-window adapter, no reset: at most 2 * max_requests calls on a
\* compound key are allowed in any interval of length window_seconds, and at
\* most max_requests from a window's opening call up to its reset_at.
C24_AtMostTwiceMaxPerInterval ==
    adapter = "memory" =>
        \A l \in WideLimits :
            /\ \A t \in 0 .. MaxLoggedTime :
                  Cardinality(AllowedBetween(CallsWith(l), t - l[2], t)) <= 2 * l[1]
            /\ \A i \in 1 .. Len(CallsWith(l)) :
                  OpensWindow(CallsWith(l)[i]) =>
                      /\ CallsWith(l)[i].recordAfter[1].reset_at
                            = CallsWith(l)[i].at + l[2]
                      /\ Cardinality(AllowedFrom(CallsWith(l), i,
                                                 CallsWith(l)[i].at + l[2])) <= l[1]

\* max_requests = 2: two calls at the end of one window and two at the start
\* of the next are all allowed, 2 * max_requests within window_seconds
C24_Witness ==
    /\ adapter = "memory"
    /\ Len(CallsWith(<<2, 3>>)) = 4
    /\ \A i \in 1 .. 4 : CallsWith(<<2, 3>>)[i].allowed
    /\ OpensWindow(CallsWith(<<2, 3>>)[3])
    /\ CallsWith(<<2, 3>>)[4].at - CallsWith(<<2, 3>>)[1].at <= 3

----------------------------------------------------------------------------
(* A client that keeps calling the sliding-window adapter (SpecBurst): runs  *)
(* long enough for a denial, repeated calls and a quiet period               *)

MaxBurstChecks == 5

MaxBurstTime == 4

InitBurst == Init /\ adapter = "redis"

\* adapter.check_limit(key, max_requests, window_seconds)
BurstCheck(key, max_requests, window_seconds) ==
    /\ nchecks < MaxBurstChecks
    /\ CheckLimitStep(key, max_requests, window_seconds)
    /\ log' = Append(log, CheckLimitEvent(key, max_requests, window_seconds, now,
                                          last'.result))

NextBurst ==
    \/ \E l \in WideLimits : BurstCheck(KeyU, l[1], l[2])
    \/ \E l \in WideLimits : GetQuota(KeyU, l[1], l[2])
    \/ now < MaxBurstTime /\ Tick(1)

SpecBurst == InitBurst /\ [][NextBurst]_vars

----------------------------------------------------------------------------
(* Denials persist while the attempts stay in the window (SpecBurst) *)

\* the calls before the j-th that are less than window_seconds old at it
AttemptsInWindow(calls, j, window_seconds) ==
    {i \in 1 .. j - 1 : calls[i].at > calls[j].at - window_seconds}

\* from the denied d-th call to the k-th, every call arrives while at least
\* max_requests earlier attempts are inside the window
KeepsCalling(calls, d, k, max_requests, window_seconds) ==
    /\ d < k
    /\ ~calls[d].allowed
    /\ \A j \in d + 1 .. k :
          Cardinality(AttemptsInWindow(calls, j, window_seconds)) >= max_requests

DeniedWhileCalling(calls, max_requests, window_seconds) ==
    \A d, k \in 1 .. Len(calls) :
        KeepsCalling(calls, d, k, max_requests, window_seconds)
            => ~calls[k].allowed

\* C26 as stated: sliding-window adapter, sequential calls: after a denial
\* every later check_limit is denied as long as each call arrives while at
\* least max_requests earlier attempts are inside the window.
C26_DeniedWhileAttemptsInWindow ==
    \A l \in WideLimits : DeniedWhileCalling(CallsWith(l), l[1], l[2])

\* C26 as amended: the same for calls with distinct timestamps.
C26_DeniedWhileDistinctAttemptsInWindow ==
    \A l \in WideLimits :
        DistinctTimestamps(CallsWith(l))
            => DeniedWhileCalling(CallsWith(l), l[1], l[2])

\* max_requests = 1: allowed, denied, denied again while the denied attempt
\* is in the window, and allowed after a quiet window
C26_Witness ==
    /\ DistinctTimestamps(CallsWith(<<1, 2>>))
    /\ Len(CallsWith(<<1, 2>>)) = 4
    /\ CallsWith(<<1, 2>>)[1].allowed
    /\ KeepsCalling(CallsWith(<<1, 2>>), 2, 3, 1, 2)
    /\ ~CallsWith(<<1, 2>>)[3].allowed
    /\ CallsWith(<<1, 2>>)[4].allowed
    /\ AttemptsInWindow(CallsWith(<<1, 2>>), 4, 2) = {}

----------------------------------------------------------------------------
(* A configuration changed and changed back (SpecRestore); the log keeps,    *)
(* for every update, the quota of key 'u' under the values before and after  *)

MaxRestoreUpdates == 3

\* the values update_limit_config is called with: a short window, and the
\* values 'gpt' is registered with
RestoreLimits == {<<1, 1>>, <<GptMaxRequests, GptWindowSeconds>>}

\* <<the quota get_quota(key, resource_type) returns under config>>, or <<>>
\* when the type is not registered
QuotaUnder(store, config, key, resource_type, t) ==
    ServiceGetQuota(adapter, store, config, key, resource_type, t).quota

RestoreEvent(resource_type, max_requests, window_seconds) ==
    [op |-> "update_limit_config", resource_type |-> resource_type,
     max_requests |-> max_requests, window_seconds |-> window_seconds,
     at |-> now,
     previous |-> IF UnknownResourceType(defaultLimits, resource_type) THEN <<>>
                  ELSE <<LimitsOf(defaultLimits, resource_type)>>,
     quotaBefore |-> QuotaUnder(Store, defaultLimits, KeyU, resource_type, now),
     quotaAfter |-> QuotaUnder(Store', defaultLimits', KeyU, resource_type, now)]

\* service.update_limit_config(resource_type, max_requests, window_seconds)
RestoreUpdate(resource_type, max_requests, window_seconds) ==
    /\ nupdates < MaxRestoreUpdates
    /\ ServiceUpdateStep(resource_type, max_requests, window_seconds)
    /\ log' = Append(log, RestoreEvent(resource_type, max_requests, window_seconds))

NextRestore ==
    \/ CheckAndUpdate(KeyU, GptType)
    \/ \E l \in RestoreLimits : RestoreUpdate(GptType, l[1], l[2])
    \/ ServiceQuota(KeyU, GptType)
    \/ now < MaxServiceTime /\ Tick(1)

SpecRestore == Init /\ [][NextRestore]_vars

----------------------------------------------------------------------------
(* update_limit_config and the recorded usage (SpecRestore) *)

\* the limits an update event registers
ValuesOf(e) == [max_requests |-> e.max_requests, window_seconds |-> e.window_seconds]

\* the updates of the log lg that precede the i-th and are of its type
EarlierUpdates(lg, i) ==
    {j \in 1 .. i - 1 : /\ lg[j].op = "update_limit_config"
                        /\ lg[j].resource_type = lg[i].resource_type}

\* the i-th event registers values its resource type never had before
NewValues(lg, i) ==
    /\ lg[i].resource_type \in DOMAIN InitialDefaultLimits =>
          InitialDefaultLimits[lg[i].resource_type] # ValuesOf(lg[i])
    /\ \A j \in EarlierUpdates(lg, i) : ValuesOf(lg[j]) # ValuesOf(lg[i])

\* the i-th event registers again the values the j-th replaced by others,
\* and they were not in force in between
Restores(lg, i, j) ==
    /\ j \in EarlierUpdates(lg, i)
    /\ lg[j].previous = <<ValuesOf(lg[i])>>
    /\ \A k \in EarlierUpdates(lg, i) : k >= j => ValuesOf(lg[k]) # ValuesOf(lg[i])

\* the update of the step, as logged
UpdateLogged == log'[Len(log')]

\* C27: update_limit_config leaves the adapter's store as it is; usage is
\* kept per (resource type, key, max_requests, window_seconds): under values
\* the type never had get_quota reports used = 0 whatever the key consumed
\* before, and registering the previous values again while their window is
\* open makes get_quota report the used count it reported before the change.
C27_UpdateKeepsRecordedUsage ==
    [][last'.op = "update_limit_config" =>
          /\ limits' = limits
          /\ redis' = redis
          /\ NewValues(log', Len(log')) => UpdateLogged.quotaAfter[1].used = 0
          /\ \A j \in 1 .. Len(log) :
                (/\ Restores(log', Len(log'), j)
                 /\ now < log[j].quotaBefore[1].reset_at)
                    => UpdateLogged.quotaAfter[1].used
                           = log[j].quotaBefore[1].used]_vars

\* 'gpt' used by 'u', changed to new values (used = 0 there) and changed back
\* (used as before)
C27_Witness ==
    /\ last.op = "update_limit_config"
    /\ \E j \in 1 .. Len(log) - 1 :
          /\ Restores(log, Len(log), j)
          /\ NewValues(log, j)
          /\ log[j].quotaBefore[1].used > 0
          /\ log[j].quotaAfter[1].used = 0
          /\ log[Len(log)].quotaAfter[1].used = log[j].quotaBefore[1].used

----------------------------------------------------------------------------
(* The life of a key (SpecExpiry): the adapters called directly while the    *)
(* clock keeps running; checks are made early enough for their window to end *)
(* before the clock stops                                                    *)

MaxExpiryChecks == 2

MaxExpiryTime == 4

\* adapter.check_limit(key, max_requests, window_seconds)
ExpiryCheck(key, max_requests, window_seconds) ==
    /\ nchecks < MaxExpiryChecks
    /\ now + window_seconds < MaxExpiryTime
    /\ CheckLimitStep(key, max_requests, window_seconds)
    /\ log' = Append(log, CheckLimitEvent(key, max_requests, window_seconds, now,
                                          last'.result))

\* time passes
ClockTick == now < MaxExpiryTime /\ Tick(1)

NextExpiry ==
    \/ \E l \in Limits : ExpiryCheck(KeyU, l[1], l[2])
    \/ \E l \in Limits : GetQuota(KeyU, l[1], l[2])
    \/ ResetLimit(KeyU)
    \/ ClockTick

SpecExpiry == Init /\ [][NextExpiry]_vars /\ WF_vars(ClockTick)

----------------------------------------------------------------------------
(* Expiry of the sorted sets, permanence of the records (SpecExpiry) *)

\* the sorted set of key 'u' under the limits l exists
KeyStored(l) == RedisKey(KeyU, l[1], l[2]) \in DOMAIN redis

\* the time of the last check_limit call made with the limits l
LastCheckAt(l) == CallsWith(l)[Len(CallsWith(l))].at

\* a check_limit step leaves its sorted set with the expiry now +
\* window_seconds
ChecksSetExpiry ==
    [][(adapter = "redis" /\ last'.op = "check_limit") =>
          /\ CalledRedisKey \in DOMAIN redis'
          /\ redis'[CalledRedisKey].expire_at = {now + last'.window_seconds}]_vars

\* a sorted set is stored only up to window_seconds after the last check_limit
\* call on it
StoredOnlyInWindow ==
    adapter = "redis" =>
        \A l \in Limits :
            KeyStored(l) => /\ CallsWith(l) # <<>>
                            /\ now <= LastCheckAt(l) + l[2]

\* a stored sorted set is removed in the end
EventuallyRemoved == \A l \in Limits : KeyStored(l) ~> ~KeyStored(l)

\* no step removes a record of the fixed-window adapter
RecordsStay == [][DOMAIN limits \subseteq DOMAIN limits']_vars

\* C28: sliding-window adapter: every check_limit sets the key's expiry to
\* window_seconds, so once the calls for a compound key stop its sorted set
\* is removed, window_seconds after the last check_limit; the fixed-window
\* adapter never removes a record.
C28_IdleKeysExpire ==
    /\ ChecksSetExpiry
    /\ []StoredOnlyInWindow
    /\ EventuallyRemoved
    /\ RecordsStay

\* a sorted set checked twice, the clock just past window_seconds after the
\* second check: the key is gone
C28_Witness ==
    /\ adapter = "redis"
    /\ last.op = "tick"
    /\ Len(CallsWith(<<2, 2>>)) = 2
    /\ CallsWith(<<2, 2>>)[1].at < LastCheckAt(<<2, 2>>)
    /\ now = LastCheckAt(<<2, 2>>) + 2 + 1
    /\ ~KeyStored(<<2, 2>>)
    /\ redis = EmptyDict

----------------------------------------------------------------------------
(* Calls that share a timestamp (SpecCollide): concurrent check_limit calls  *)
(* on one compound key, enough of them for a third to run between two        *)

MaxCollideCalls == 3

CollideLimit == <<2, 3>>

\* a thread enters check_limit
BeginCollidingCheck(tid) ==
    /\ nchecks < MaxCollideCalls
    /\ BeginCheckStep(tid, ConcKey, CollideLimit[1], CollideLimit[2])

NextCollide ==
    \/ \E tid \in Threads : BeginCollidingCheck(tid)
    \/ \E tid \in Threads : ExecuteStep(tid)
    \/ \E tid \in Threads : DecideStep(tid)
    \/ now < MaxTime /\ Tick(1)

SpecCollide == InitRedisConc /\ [][NextCollide]_vars

----------------------------------------------------------------------------
(* Properties of calls with one timestamp (SpecCollide) *)

\* two finished calls on one compound key that obtained the same timestamp
SharedTimestamp(i, j) ==
    /\ i # j
    /\ log[i].key = log[j].key
    /\ log[i].max_requests = log[j].max_requests
    /\ log[i].window_seconds = log[j].window_seconds
    /\ log[i].at = log[j].at

\* the calls whose pipeline has run and whose timestamp is in the set
ExecutedWithin(set) ==
    Cardinality({i \in 1 .. Len(log) : log[i].at \in set})
        + Cardinality({tid \in Threads : /\ threads[tid].pc = "decide"
                                         /\ threads[tid].now \in set})

\* the j-th call inserted a member that was there, and counted as the i-th did
Overwrote(i, j) ==
    /\ log[j].at \in log[j].before
    /\ log[j].after \subseteq log[j].before
    /\ log[j].used = log[i].used
    /\ log[j].used < ExecutedWithin(log[j].after)

\* C29 as stated: of two check_limit calls on one compound key with the same
\* timestamp the second insertion overwrites the first: the set grows by one
\* member instead of two, both calls observe the same used count, and that
\* count is lower than the number of calls made in the window.
C29_SharedTimestampSharedCount ==
    \A i, j \in 1 .. Len(log) :
        SharedTimestamp(i, j) => (Overwrote(i, j) \/ Overwrote(j, i))

\* C29 as amended: the same for two calls of which the second runs its
\* pipeline on the set the first left.
C29_SharedTimestampOnSameSet ==
    \A i, j \in 1 .. Len(log) :
        (SharedTimestamp(i, j) /\ log[j].before = log[i].after)
            => Overwrote(i, j)

\* two calls with one timestamp, both counting 1 and both allowed, on a set of
\* one member
C29_Witness ==
    /\ Len(log) = 2
    /\ SharedTimestamp(1, 2)
    /\ log[2].before = log[1].after
    /\ log[2].after = {log[2].at}
    /\ log[1].used = 1
    /\ log[2].used = 1
    /\ log[1].allowed
    /\ log[2].allowed

----------------------------------------------------------------------------
(* What reset_limit of the fixed-window adapter changes (SpecFixedWindow) *)

\* the step is a reset_limit call on the fixed-window adapter
InMemoryReset == adapter = "memory" /\ last'.op = "reset_limit"

\* the step is a check_limit call on a record whose window saw a reset
CheckAfterReset ==
    /\ adapter = "memory"
    /\ last'.op = "check_limit"
    /\ LastLimitKey' \in DOMAIN windows
    /\ windows[LastLimitKey'].reset

\* C30: InMemoryRateLimiter.reset_limit(key) sets to 0 the count of the
\* records whose limit key starts with key + ':' and changes nothing else: no
\* reset_at, no other count, no record removed or added.  The window is not
\* restarted: a check after the reset keeps the original reset_at while now is
\* before it, and opens a new window at the first check at or after it.
C30_ResetKeepsWindow ==
    [][/\ InMemoryReset =>
             /\ DOMAIN limits' = DOMAIN limits
             /\ \A limit_key \in DOMAIN limits :
                   /\ limits'[limit_key].reset_at = limits[limit_key].reset_at
                   /\ limits'[limit_key].count =
                         IF StartsWith(limit_key, last'.key \o <<":">>)
                         THEN 0 ELSE limits[limit_key].count
       /\ CheckAfterReset =>
             /\ limits[LastLimitKey'].reset_at
                   = windows[LastLimitKey'].start + last'.window_seconds
             /\ IF now < limits[LastLimitKey'].reset_at
                THEN /\ limits'[LastLimitKey'].reset_at
                            = limits[LastLimitKey'].reset_at
                     /\ limits'[LastLimitKey'].count <= last'.max_requests
                ELSE /\ limits'[LastLimitKey'].reset_at
                            = now + last'.window_seconds
                     /\ limits'[LastLimitKey'].count = 1
                     /\ last'.result.allowed]_vars

\* a record of max_requests = 2 opened at 0, reset later in its window and
\* checked again: count 1, reset_at as at the start
C30_Witness ==
    /\ adapter = "memory"
    /\ last.op = "check_limit"
    /\ LastLimitKey \in DOMAIN windows
    /\ windows[LastLimitKey].reset
    /\ windows[LastLimitKey].start < last.at
    /\ last.before # <<>>
    /\ last.before[1].count = 0
    /\ limits[LastLimitKey].count = 1
    /\ limits[LastLimitKey].reset_at
          = windows[LastLimitKey].start + last.window_seconds
    /\ last.result.allowed

====
